---------------------------- MODULE Spec2Model ----------------------------
(***************************************************************************)
(* Log-stream pipeline of the Dokploy VS Code extension: the LogsWebview   *)
(* controller (views/logs-webview.ts), its WebSocket sessions, and the     *)
(* per-line parser, classifier and renderer it applies to the log buffer.  *)
(*                                                                         *)
(* Text is a sequence of one-character strings; the line break is "\n".    *)
(***************************************************************************)
EXTENDS Integers, Sequences, FiniteSets, TLC

(***************************************************************************)
(* Character classes of JavaScript regular expressions and of String.trim. *)
(***************************************************************************)
\* \s and the characters trim() removes (those the model's texts can hold)
IsSpace(c) == c \in {" ", "\t", "\n", "\r"}

\* the characters '.' does not match
IsLineTerminator(c) == c \in {"\n", "\r"}

\* \d
IsDigit(c) == c \in {"0", "1", "2", "3", "4", "5", "6", "7", "8", "9"}

LowerLetters ==
    {"a", "b", "c", "d", "e", "f", "g", "h", "i", "j", "k", "l", "m",
     "n", "o", "p", "q", "r", "s", "t", "u", "v", "w", "x", "y", "z"}

LowerMap ==
    ("A" :> "a") @@ ("B" :> "b") @@ ("C" :> "c") @@ ("D" :> "d") @@
    ("E" :> "e") @@ ("F" :> "f") @@ ("G" :> "g") @@ ("H" :> "h") @@
    ("I" :> "i") @@ ("J" :> "j") @@ ("K" :> "k") @@ ("L" :> "l") @@
    ("M" :> "m") @@ ("N" :> "n") @@ ("O" :> "o") @@ ("P" :> "p") @@
    ("Q" :> "q") @@ ("R" :> "r") @@ ("S" :> "s") @@ ("T" :> "t") @@
    ("U" :> "u") @@ ("V" :> "v") @@ ("W" :> "w") @@ ("X" :> "x") @@
    ("Y" :> "y") @@ ("Z" :> "z")

UpperLetters == DOMAIN LowerMap

\* \w
IsWordChar(c) == c \in LowerLetters \/ c \in UpperLetters \/ IsDigit(c) \/ c = "_"

\* String.prototype.toLowerCase
ToLowerCase(s) ==
    [i \in 1..Len(s) |-> IF s[i] \in UpperLetters THEN LowerMap[s[i]] ELSE s[i]]

(***************************************************************************)
(* String primitives.                                                      *)
(***************************************************************************)
\* the text from index i to the end
Tail_(s, i) == SubSeq(s, i, Len(s))

\* w occurs in s starting at index i
At(s, i, w) ==
    /\ i >= 1
    /\ i + Len(w) - 1 <= Len(s)
    /\ \A k \in 1..Len(w) : s[i + k - 1] = w[k]

\* s contains w
Contains(s, w) == \E i \in 1..(Len(s) - Len(w) + 1) : At(s, i, w)

\* index i of s holds a \w character
IsW(s, i) == i >= 1 /\ i <= Len(s) /\ IsWordChar(s[i])

\* \b between index i-1 and index i
Boundary(s, i) == IsW(s, i - 1) # IsW(s, i)

\* every character of s[a..b] is whitespace
AllSpace(s, a, b) == \A k \in a..b : IsSpace(s[k])

\* every character of s[a..b] is a digit
AllDigit(s, a, b) == \A k \in a..b : IsDigit(s[k])

\* String.prototype.trim
RECURSIVE TrimStart(_)
TrimStart(s) ==
    IF s = <<>> THEN <<>>
    ELSE IF IsSpace(Head(s)) THEN TrimStart(Tail(s)) ELSE s

RECURSIVE TrimEnd(_)
TrimEnd(s) ==
    IF s = <<>> THEN <<>>
    ELSE IF IsSpace(s[Len(s)]) THEN TrimEnd(SubSeq(s, 1, Len(s) - 1)) ELSE s

Trim(s) == TrimEnd(TrimStart(s))

\* String.prototype.split('\n'): the pieces between line breaks, the text
\* after the last break included (one piece, possibly empty, for any text)
RECURSIVE SplitLines(_)
SplitLines(s) ==
    IF \A i \in 1..Len(s) : s[i] # "\n" THEN <<s>>
    ELSE LET p == CHOOSE i \in 1..Len(s) :
                     s[i] = "\n" /\ \A j \in 1..(i - 1) : s[j] # "\n"
         IN  <<SubSeq(s, 1, p - 1)>> \o SplitLines(Tail_(s, p + 1))

\* Array.prototype.join('\n') of the rendered rows is kept as the sequence of
\* rows: a row is a record, never a text that could hold a separator.

\* String.prototype.replace(/c/g, rep) for a single character c
RECURSIVE ReplaceAll(_, _, _)
ReplaceAll(s, c, rep) ==
    IF \A i \in 1..Len(s) : s[i] # c THEN s
    ELSE (IF Head(s) = c THEN rep ELSE <<Head(s)>>) \o ReplaceAll(Tail(s), c, rep)

\* index of the first occurrence of w in s, 0 when there is none
IndexOf(s, w) ==
    IF Contains(s, w)
    THEN CHOOSE i \in 1..Len(s) : At(s, i, w) /\ \A j \in 1..(i - 1) : ~At(s, j, w)
    ELSE 0

\* String.prototype.replace(w, rep) with a string pattern: the first
\* occurrence only
ReplaceFirst(s, w, rep) ==
    LET p == IndexOf(s, w)
    IN  IF p = 0 THEN s
        ELSE SubSeq(s, 1, p - 1) \o rep \o Tail_(s, p + Len(w))

(***************************************************************************)
(* Date: an instant is [day, sec, ms], the days since 1970-01-01 UTC, the  *)
(* second of that day and the millisecond.  tzMin is the host's offset     *)
(* from UTC in minutes (local time = UTC + tzMin).                         *)
(***************************************************************************)
NoDate == [day |-> -1000000, sec |-> -1, ms |-> -1]

DigitVal ==
    ("0" :> 0) @@ ("1" :> 1) @@ ("2" :> 2) @@ ("3" :> 3) @@ ("4" :> 4) @@
    ("5" :> 5) @@ ("6" :> 6) @@ ("7" :> 7) @@ ("8" :> 8) @@ ("9" :> 9)

DigitChar == <<"0", "1", "2", "3", "4", "5", "6", "7", "8", "9">>

\* the number written by the digits s[a..b]
RECURSIVE Num(_, _, _)
Num(s, a, b) == IF b < a THEN 0 ELSE Num(s, a, b - 1) * 10 + DigitVal[s[b]]

\* Number.prototype.toString of a natural number
RECURSIVE NumToText(_)
NumToText(n) ==
    IF n < 10 THEN <<DigitChar[n + 1]>>
    ELSE NumToText(n \div 10) \o <<DigitChar[(n % 10) + 1]>>

\* days since 1970-01-01 of the civil date y-m-d (d may run past the month)
DaysFromCivil(y, m, d) ==
    LET yy  == IF m <= 2 THEN y - 1 ELSE y
        era == yy \div 400
        yoe == yy - era * 400
        mp  == IF m > 2 THEN m - 3 ELSE m + 9
        doy == (153 * mp + 2) \div 5 + d - 1
        doe == yoe * 365 + yoe \div 4 - yoe \div 100 + doy
    IN  era * 146097 + doe - 719468

\* the civil date [y, m, d] of a day number
CivilFromDays(z) ==
    LET zz  == z + 719468
        era == zz \div 146097
        doe == zz - era * 146097
        yoe == (doe - doe \div 1460 + doe \div 36524 - doe \div 146096) \div 365
        doy == doe - (365 * yoe + yoe \div 4 - yoe \div 100)
        mp  == (5 * doy + 2) \div 153
        d   == doy - (153 * mp + 2) \div 5 + 1
        m   == IF mp < 10 THEN mp + 3 ELSE mp - 9
        y   == yoe + era * 400 + (IF m <= 2 THEN 1 ELSE 0)
    IN  [y |-> y, m |-> m, d |-> d]

\* new Date(str) for str of the form YYYY-MM-DDTHH:MM:SS(.f+)?(Z)?, the only
\* form parseLogLine hands it: the fields are range-checked (month 1..12,
\* day 1..31, 24:00:00 allowed), a text ending in Z is UTC and any other is
\* local time; NoDate is the Invalid Date
DateParse(str, tzMin) ==
    LET y    == Num(str, 1, 4)
        mo   == Num(str, 6, 7)
        d    == Num(str, 9, 10)
        h    == Num(str, 12, 13)
        mi   == Num(str, 15, 16)
        s    == Num(str, 18, 19)
        utc  == str[Len(str)] = "Z"
        fEnd == IF utc THEN Len(str) - 1 ELSE Len(str)
        frac == IF fEnd > 20 THEN SubSeq(str, 21, fEnd) ELSE <<>>
        f3   == SubSeq(frac \o <<"0", "0", "0">>, 1, 3)
        ms   == Num(f3, 1, 3)
        ok   == /\ mo \in 1..12
                /\ d \in 1..31
                /\ \/ h \in 0..23 /\ mi \in 0..59 /\ s \in 0..59
                   \/ h = 24 /\ mi = 0 /\ s = 0 /\ ms = 0
        secs == h * 3600 + mi * 60 + s - (IF utc THEN 0 ELSE tzMin * 60)
        days == DaysFromCivil(y, mo, d)
    IN  IF ~ok THEN NoDate
        ELSE [day |-> days + (secs \div 86400), sec |-> secs % 86400, ms |-> ms]

\* isNaN(date.getTime())
IsInvalidDate(date) == date = NoDate

Pad(n) == IF n < 10 THEN <<"0">> \o NumToText(n) ELSE NumToText(n)

\* formatTimestamp: YYYY-MM-DD HH:MM:SS of the instant in host local time
StampText(civil, sod) ==
    NumToText(civil.y) \o <<"-">> \o Pad(civil.m) \o <<"-">> \o Pad(civil.d)
    \o <<" ">> \o Pad(sod \div 3600) \o <<":">> \o Pad((sod % 3600) \div 60)
    \o <<":">> \o Pad(sod % 60)

\* the text of the instant secs seconds after the start of day number day
StampAt(day, secs) ==
    StampText(CivilFromDays(day + (secs \div 86400)), secs % 86400)

FormatTimestamp(date, tzMin) == StampAt(date.day, date.sec + tzMin * 60)

(***************************************************************************)
(* parseLogLine                                                            *)
(***************************************************************************)
\* the index just past \d{4}-\d{2}-\d{2}[T ]\d{2}:\d{2}:\d{2}(?:\.\d+)? at the
\* start of the line, 0 when the line does not start that way
StampEnd(line) ==
    IF /\ Len(line) >= 19
       /\ AllDigit(line, 1, 4) /\ line[5] = "-"
       /\ AllDigit(line, 6, 7) /\ line[8] = "-"
       /\ AllDigit(line, 9, 10) /\ line[11] \in {"T", " "}
       /\ AllDigit(line, 12, 13) /\ line[14] = ":"
       /\ AllDigit(line, 15, 16) /\ line[17] = ":"
       /\ AllDigit(line, 18, 19)
    THEN IF Len(line) >= 21 /\ line[20] = "." /\ IsDigit(line[21])
         THEN CHOOSE e \in 22..(Len(line) + 1) :
                  /\ AllDigit(line, 21, e - 1)
                  /\ (e <= Len(line) => ~IsDigit(line[e]))
         ELSE 20
    ELSE 0

\* \s+(.*)$ matches from index e: whitespace there, and no line terminator
\* after the whitespace run
RestMatches(line, e) ==
    /\ e <= Len(line)
    /\ IsSpace(line[e])
    /\ \A k \in e..Len(line) :
           IsLineTerminator(line[k]) => AllSpace(line, e, k)

\* the index just past the whole timestamp group (zone suffix included), 0
\* when timestampRegex does not match the line: the suffix is taken when the
\* rest then matches, and given up otherwise
ZoneEnd(line, e) ==
    IF e = 0 THEN 0
    ELSE IF At(line, e, <<"Z">>) /\ RestMatches(line, e + 1) THEN e + 1
    ELSE IF At(line, e, <<" ", "U", "T", "C">>) /\ RestMatches(line, e + 4) THEN e + 4
    ELSE IF RestMatches(line, e) THEN e
    ELSE 0

MatchEnd(line) == ZoneEnd(line, StampEnd(line))

\* the groups of the match whose timestamp group ends before index e
MatchGroups(line, e, tzMin) ==
    [timestamp |-> DateParse(
                       ReplaceFirst(
                           ReplaceFirst(SubSeq(line, 1, e - 1), <<" ", "U", "T", "C">>, <<"Z">>),
                           <<" ">>, <<"T">>),
                       tzMin),
     message   |-> Trim(TrimStart(Tail_(line, e)))]

ParseMatchTrimmed(line, e, tzMin) ==
    IF e # 0 THEN MatchGroups(line, e, tzMin)
    ELSE [timestamp |-> NoDate, message |-> Trim(line)]

ParseMatch(line, e, tzMin) ==
    IF e # 0 THEN MatchGroups(line, e, tzMin)
    ELSE [timestamp |-> NoDate, message |-> line]

ParseLogLine(line, tzMin) == ParseMatch(line, MatchEnd(line), tzMin)

(***************************************************************************)
(* getLogType: the rule groups, one operator per regular expression.       *)
(***************************************************************************)
LOG_STYLES ==
    [error   |-> [type |-> "error", bgClass |-> "log-error",
                  borderColor |-> "#f44336",
                  badgeBg |-> "rgba(244, 67, 54, 0.4)", badgeText |-> "#ff6b6b"],
     warning |-> [type |-> "warning", bgClass |-> "log-warning",
                  borderColor |-> "#ff9800",
                  badgeBg |-> "rgba(255, 152, 0, 0.4)", badgeText |-> "#ffb74d"],
     success |-> [type |-> "success", bgClass |-> "log-success",
                  borderColor |-> "#4caf50",
                  badgeBg |-> "rgba(76, 175, 80, 0.4)", badgeText |-> "#81c784"],
     info    |-> [type |-> "info", bgClass |-> "log-info",
                  borderColor |-> "#2196f3",
                  badgeBg |-> "rgba(33, 150, 243, 0.4)", badgeText |-> "#64b5f6"],
     debug   |-> [type |-> "debug", bgClass |-> "log-debug",
                  borderColor |-> "#9e9e9e",
                  badgeBg |-> "rgba(158, 158, 158, 0.3)", badgeText |-> "#bdbdbd"]]

\* glyphs are single characters of the text, named by their code point
WarnGlyph   == "U+26A0"
CheckGlyph  == "U+2713"
SqrtGlyph   == "U+221A"
CheckButton == "U+2705"

\* /(?:^|\s)(?:w1|w2|..):?\s/
LeadingToken(s, words) ==
    \E i \in 1..Len(s) :
        /\ i = 1 \/ IsSpace(s[i - 1])
        /\ s[i] \in {w[1] : w \in words}
        /\ \E w \in words :
               /\ At(s, i, w)
               /\ LET j == i + Len(w)
                  IN  \/ j <= Len(s) /\ IsSpace(s[j])
                      \/ j + 1 <= Len(s) /\ s[j] = ":" /\ IsSpace(s[j + 1])

\* /\b(?:w1|w2|..)\b/ for words made of \w characters
WholeWord(s, words) ==
    \E i \in 1..Len(s) :
        /\ s[i] \in {w[1] : w \in words}
        /\ ~IsW(s, i - 1)
        /\ \E w \in words : At(s, i, w) /\ ~IsW(s, i + Len(w))

\* /(?:w1|w2|..)/
AnyOf(s, words) ==
    \E i \in 1..Len(s) : s[i] \in {w[1] : w \in words} /\ \E w \in words : At(s, i, w)

\* the indices after a run of one or more whitespace characters starting at j
AfterSpaces(s, j) == {k \in (j + 1)..(Len(s) + 1) : AllSpace(s, j, k - 1)}

\* /(?:a1|a2|..)\s+(?:b1|b2|..)/
TwoWords(s, as, bs) ==
    \E i \in 1..Len(s) :
        /\ s[i] \in {w[1] : w \in as}
        /\ \E a \in as :
               /\ At(s, i, a)
               /\ \E k \in AfterSpaces(s, i + Len(a)) : \E b \in bs : At(s, k, b)

\* /(?:stack\s?trace):\s*$/
StackTraceRule(s) ==
    \E i \in 1..Len(s) :
        /\ At(s, i, <<"s", "t", "a", "c", "k">>)
        /\ \E j \in {i + 5, i + 6} :
               /\ j = i + 6 => (i + 5 <= Len(s) /\ IsSpace(s[i + 5]))
               /\ At(s, j, <<"t", "r", "a", "c", "e", ":">>)
               /\ AllSpace(s, j + 6, Len(s))

\* /^\s*at\s+[\w.]+\s*\(?.+:\d+:\d+\)?/
StackFrameRule(s) ==
    \E a \in 1..Len(s) :
        /\ AllSpace(s, 1, a - 1)
        /\ At(s, a, <<"a", "t">>)
        /\ \E m \in AfterSpaces(s, a + 2) :
               /\ m <= Len(s)
               /\ IsWordChar(s[m]) \/ s[m] = "."
               /\ \E p \in (m + 2)..Len(s) :
                      /\ s[p] = ":"
                      /\ \E r \in (m + 1)..(p - 1) :
                             \* s[m..r-1] is [\w.]+\s*\(? and s[r..p-1] is .+
                             /\ \A k \in r..(p - 1) : ~IsLineTerminator(s[k])
                             /\ \E w \in m..(r - 1) : \E q \in w..(r - 1) :
                                    /\ \A k \in m..w : IsWordChar(s[k]) \/ s[k] = "."
                                    /\ AllSpace(s, w + 1, q)
                                    /\ q = r - 1 \/ (q = r - 2 /\ s[r - 1] = "(")
                      /\ \E q \in (p + 2)..(Len(s) - 1) :
                             /\ AllDigit(s, p + 1, q - 1)
                             /\ s[q] = ":"
                             /\ IsDigit(s[q + 1])

\* /\b(?:uncaught|unhandled)\s+(?:exception|error)\b/
UncaughtRule(s) ==
    \E i \in 1..Len(s) :
        /\ ~IsW(s, i - 1)
        /\ \E a \in {<<"u", "n", "c", "a", "u", "g", "h", "t">>, <<"u", "n", "h", "a", "n", "d", "l", "e", "d">>} :
               /\ At(s, i, a)
               /\ \E k \in AfterSpaces(s, i + Len(a)) :
                      \E b \in {<<"e", "x", "c", "e", "p", "t", "i", "o", "n">>, <<"e", "r", "r", "o", "r">>} :
                          At(s, k, b) /\ ~IsW(s, k + Len(b))

\* /\b(?:caution|attention|notice):\s/
NoticeRule(s) ==
    \E i \in 1..Len(s) :
        /\ ~IsW(s, i - 1)
        /\ \E w \in {<<"c", "a", "u", "t", "i", "o", "n">>, <<"a", "t", "t", "e", "n", "t", "i", "o", "n">>, <<"n", "o", "t", "i", "c", "e">>} :
               /\ At(s, i, w \o <<":">>)
               /\ i + Len(w) + 1 <= Len(s)
               /\ IsSpace(s[i + Len(w) + 1])

\* /(?:listening|running)\s+(?:on|at)\s+(?:port\s+)?\d+/
ListeningRule(s) ==
    \E i \in 1..Len(s) :
        \E a \in {<<"l", "i", "s", "t", "e", "n", "i", "n", "g">>, <<"r", "u", "n", "n", "i", "n", "g">>} :
            /\ At(s, i, a)
            /\ \E k \in AfterSpaces(s, i + Len(a)) :
                   \E b \in {<<"o", "n">>, <<"a", "t">>} :
                       /\ At(s, k, b)
                       /\ \E n \in AfterSpaces(s, k + 2) :
                              \/ n <= Len(s) /\ IsDigit(s[n])
                              \/ /\ At(s, n, <<"p", "o", "r", "t">>)
                                 /\ \E d \in AfterSpaces(s, n + 4) :
                                        d <= Len(s) /\ IsDigit(s[d])

\* /\b(?:status|state|current|progress)\b:?\s/
StatusRule(s) ==
    \E i \in 1..Len(s) :
        /\ ~IsW(s, i - 1)
        /\ \E w \in {<<"s", "t", "a", "t", "u", "s">>, <<"s", "t", "a", "t", "e">>, <<"c", "u", "r", "r", "e", "n", "t">>, <<"p", "r", "o", "g", "r", "e", "s", "s">>} :
               /\ At(s, i, w)
               /\ LET j == i + Len(w)
                  IN  \/ j <= Len(s) /\ IsSpace(s[j])
                      \/ j + 1 <= Len(s) /\ s[j] = ":" /\ IsSpace(s[j + 1])

IsErrorLine(s) ==
    \/ LeadingToken(s, {<<"e", "r", "r", "o", "r">>, <<"e", "r", "r">>})
    \/ WholeWord(s, {<<"e", "x", "c", "e", "p", "t", "i", "o", "n">>, <<"f", "a", "i", "l", "e", "d">>, <<"f", "a", "i", "l", "u", "r", "e">>})
    \/ StackTraceRule(s)
    \/ StackFrameRule(s)
    \/ UncaughtRule(s)
    \/ AnyOf(s, {<<"[", "e", "r", "r", "o", "r", "]">>, <<"[", "e", "r", "r", "]">>, <<"[", "f", "a", "t", "a", "l", "]">>})
    \/ WholeWord(s, {<<"c", "r", "a", "s", "h">>, <<"c", "r", "i", "t", "i", "c", "a", "l">>, <<"f", "a", "t", "a", "l">>})

IsWarningLine(s) ==
    \/ LeadingToken(s, {<<"w", "a", "r", "n", "i", "n", "g">>, <<"w", "a", "r", "n">>})
    \/ AnyOf(s, {<<"[", "w", "a", "r", "n", "]">>, <<"[", "w", "a", "r", "n", "i", "n", "g", "]">>, <<"[", "a", "t", "t", "e", "n", "t", "i", "o", "n", "]">>})
    \/ AnyOf(s, {<<"d", "e", "p", "r", "e", "c", "a", "t", "e", "d">>, <<"o", "b", "s", "o", "l", "e", "t", "e">>})
    \/ NoticeRule(s)
    \/ AnyOf(s, {<<WarnGlyph>>})

IsSuccessLine(s) ==
    \/ TwoWords(s, {<<"s", "u", "c", "c", "e", "s", "s", "f", "u", "l", "l", "y">>, <<"c", "o", "m", "p", "l", "e", "t", "e">>, <<"c", "o", "m", "p", "l", "e", "t", "e", "d">>},
                {<<"i", "n", "i", "t", "i", "a", "l", "i", "z", "e", "d">>, <<"s", "t", "a", "r", "t", "e", "d">>, <<"c", "o", "m", "p", "l", "e", "t", "e", "d">>, <<"c", "r", "e", "a", "t", "e", "d">>,
                 <<"d", "o", "n", "e">>, <<"d", "e", "p", "l", "o", "y", "e", "d">>})
    \/ AnyOf(s, {<<"[", "s", "u", "c", "c", "e", "s", "s", "]">>, <<"[", "o", "k", "]">>, <<"[", "d", "o", "n", "e", "]">>})
    \/ ListeningRule(s)
    \/ TwoWords(s, {<<"c", "o", "n", "n", "e", "c", "t", "e", "d">>, <<"e", "s", "t", "a", "b", "l", "i", "s", "h", "e", "d">>, <<"r", "e", "a", "d", "y">>},
                {<<"t", "o">>, <<"f", "o", "r">>, <<"o", "n">>})
    \/ AnyOf(s, {<<CheckGlyph>>, <<SqrtGlyph>>, <<CheckButton>>, <<"[", "o", "k", "]">>, <<"d", "o", "n", "e", "!">>})
    \/ WholeWord(s, {<<"s", "u", "c", "c", "e", "s", "s">>, <<"s", "u", "c", "c", "e", "s", "s", "f", "u", "l">>, <<"c", "o", "m", "p", "l", "e", "t", "e", "d">>, <<"r", "e", "a", "d", "y">>})

IsInfoLine(s) ==
    \/ LeadingToken(s, {<<"i", "n", "f", "o">>, <<"i", "n", "f">>, <<"i", "n", "f", "o", "r", "m", "a", "t", "i", "o", "n">>})
    \/ AnyOf(s, {<<"[", "i", "n", "f", "o", "]">>, <<"[", "i", "n", "f", "o", "r", "m", "a", "t", "i", "o", "n", "]">>})
    \/ StatusRule(s)
    \/ WholeWord(s, {<<"p", "r", "o", "c", "e", "s", "s", "i", "n", "g">>, <<"e", "x", "e", "c", "u", "t", "i", "n", "g">>, <<"p", "e", "r", "f", "o", "r", "m", "i", "n", "g">>})
    \/ WholeWord(s, {<<"c", "l", "o", "n", "i", "n", "g">>, <<"b", "u", "i", "l", "d", "i", "n", "g">>, <<"i", "n", "s", "t", "a", "l", "l", "i", "n", "g">>, <<"d", "o", "w", "n", "l", "o", "a", "d", "i", "n", "g">>,
                     <<"f", "e", "t", "c", "h", "i", "n", "g">>})

\* the rule cascade of getLogType
ClassifySuccessFirst(message) ==
    LET lowerMessage == ToLowerCase(message)
    IN  IF IsSuccessLine(lowerMessage) THEN LOG_STYLES.success
        ELSE IF IsErrorLine(lowerMessage) THEN LOG_STYLES.error
        ELSE IF IsWarningLine(lowerMessage) THEN LOG_STYLES.warning
        ELSE IF IsInfoLine(lowerMessage) THEN LOG_STYLES.info
        ELSE LOG_STYLES.debug

Classify(message) ==
    LET lowerMessage == ToLowerCase(message)
    IN  IF IsErrorLine(lowerMessage) THEN LOG_STYLES.error
        ELSE IF IsWarningLine(lowerMessage) THEN LOG_STYLES.warning
        ELSE IF IsSuccessLine(lowerMessage) THEN LOG_STYLES.success
        ELSE IF IsInfoLine(lowerMessage) THEN LOG_STYLES.info
        ELSE LOG_STYLES.debug

\* the lines the controller itself writes into the display
ConnectingText == <<"C", "o", "n", "n", "e", "c", "t", "i", "n", "g", " ", "t", "o", " ", "l", "o", "g", " ", "s", "t", "r", "e", "a", "m", ".", ".", ".">>
ConnectedText == <<"C", "o", "n", "n", "e", "c", "t", "e", "d", ".", " ", "W", "a", "i", "t", "i", "n", "g", " ", "f", "o", "r", " ", "l", "o", "g", "s", ".", ".", ".">>
ConnectionErrorPrefix == <<"C", "o", "n", "n", "e", "c", "t", "i", "o", "n", " ", "e", "r", "r", "o", "r", ":", " ">>
StreamEndedText == <<"-", "-", "-", " ", "L", "o", "g", " ", "s", "t", "r", "e", "a", "m", " ", "e", "n", "d", "e", "d", " ", "-", "-", "-">>
\* error.message of a failed transport
TransportReason == <<"r", "e", "f", "u", "s", "e", "d">>
\* error.message when close() is called before the connection is established
\* (the library's text is longer)
AbortReason == <<"c", "l", "o", "s", "e", "d", " ", "e", "a", "r", "l", "y">>

\* the styles of the controller's own lines, computed once: getLogType is
\* Classify, and this table only saves evaluating it again for these lines
KnownStyles ==
    [t \in {ConnectingText, ConnectedText, StreamEndedText,
            ConnectionErrorPrefix \o TransportReason,
            ConnectionErrorPrefix \o AbortReason} |-> Classify(t)]

StyleIn(known, message) ==
    IF message \in DOMAIN known THEN known[message] ELSE Classify(message)

GetLogType(message) == StyleIn(KnownStyles, message)

(***************************************************************************)
(* escapeHtml, the ANSI converter and the rendered rows.                   *)
(***************************************************************************)
EscapeHtmlAmpLast(text) ==
    ReplaceAll(
        ReplaceAll(
            ReplaceAll(
                ReplaceAll(
                    ReplaceAll(text, "<", <<"&", "l", "t", ";">>),
                    ">", <<"&", "g", "t", ";">>),
                "\"", <<"&", "q", "u", "o", "t", ";">>),
            "'", <<"&", "#", "0", "3", "9", ";">>),
        "&", <<"&", "a", "m", "p", ";">>)

EscapeHtml(text) ==
    ReplaceAll(
        ReplaceAll(
            ReplaceAll(
                ReplaceAll(
                    ReplaceAll(text, "&", <<"&", "a", "m", "p", ";">>),
                    "<", <<"&", "l", "t", ";">>),
                ">", <<"&", "g", "t", ";">>),
            "\"", <<"&", "q", "u", "o", "t", ";">>),
        "'", <<"&", "#", "0", "3", "9", ";">>)

\* ansiConverter.toHtml: the texts of the model hold no escape character, and
\* the converter returns such a text as it is
Esc == "U+001B"
AnsiToHtml(text) == SelectSeq(text, LAMBDA c : c # Esc)

EmptyRow == [cls |-> "log-empty"]

\* the <div class="log-line ..."> row both rendering paths build
LogRow(style, timestampHtml, messageHtml) ==
    [cls         |-> style.bgClass,
     borderColor |-> style.borderColor,
     timestamp   |-> timestampHtml,
     badgeBg     |-> style.badgeBg,
     badgeText   |-> style.badgeText,
     badge       |-> style.type,
     message     |-> messageHtml]

\* '' and <span class="log-timestamp">text</span>
NoSpan == [span |-> FALSE, text |-> <<>>]
TimestampSpan(text) == [span |-> TRUE, text |-> text]

\* formatLogLine, the row of the runtime-log path
FormatParsedByStamp(parsed, showTs, tzMin) ==
    LogRow(IF parsed.timestamp # NoDate THEN LOG_STYLES.info
           ELSE GetLogType(parsed.message),
           IF showTs /\ parsed.timestamp # NoDate
           THEN TimestampSpan(FormatTimestamp(parsed.timestamp, tzMin))
           ELSE NoSpan,
           AnsiToHtml(EscapeHtml(parsed.message)))

FormatParsed(parsed, showTs, tzMin) ==
    LogRow(GetLogType(parsed.message),
           IF showTs /\ parsed.timestamp # NoDate
           THEN TimestampSpan(FormatTimestamp(parsed.timestamp, tzMin))
           ELSE NoSpan,
           AnsiToHtml(EscapeHtml(parsed.message)))

FormatLogLineNoBlank(line, showTs, tzMin) ==
    FormatParsed(ParseLogLine(line, tzMin), showTs, tzMin)

FormatLogLine(line, showTs, tzMin) ==
    IF Trim(line) = <<>> THEN EmptyRow
    ELSE FormatParsed(ParseLogLine(line, tzMin), showTs, tzMin)

\* the row the lines.map callback of updateContent builds, the deployment-log
\* path
FormatContentParsed(parsed, showTs, tzMin) ==
    LogRow(GetLogType(parsed.message),
           IF showTs
           THEN IF parsed.timestamp # NoDate
                THEN TimestampSpan(FormatTimestamp(parsed.timestamp, tzMin))
                ELSE TimestampSpan(<<>>)
           ELSE NoSpan,
           AnsiToHtml(EscapeHtml(parsed.message)))

FormatContentLine(line, showTs, tzMin) ==
    IF Trim(line) = <<>> THEN EmptyRow
    ELSE FormatContentParsed(ParseLogLine(line, tzMin), showTs, tzMin)

\* logContent.split('\n').map(formatLogLine)
RenderRuntimeLines(logContent, showTs, tzMin) ==
    LET lines == SplitLines(logContent)
    IN  [i \in 1..Len(lines) |-> FormatLogLine(lines[i], showTs, tzMin)]

\* logContent.split('\n').map(line => ...) of updateContent
RenderContentLines(logContent, showTs, tzMin) ==
    LET lines == SplitLines(logContent)
    IN  [i \in 1..Len(lines) |-> FormatContentLine(lines[i], showTs, tzMin)]

(***************************************************************************)
(* Bounds of the model.                                                    *)
(***************************************************************************)
\* WebSocket objects that can still emit events at one time
MaxSockets == 2
\* 'message' events delivered in one run
MaxChunks == 2
\* onDidReceiveMessage listeners registered on one panel
MaxHandlers == 2

(***************************************************************************)
(* The environment: containers, tail depths, the chunks a source sends.    *)
(***************************************************************************)
App == "app1"
ContainerIds == {"c1", "c2"}
\* what getContainersByAppLabel can resolve to
ContainerLists == {<<>>, <<"c1", "c2">>}
\* the options of the tail selector (getRuntimeHtml), two of them
TailOptions == {100, 500}
DefaultTail == 100
Deployment == "deployment"
\* every source writes lines of its own letter, one that no line of the
\* controller holds
SourceChar(src) == IF src = "c1" THEN "x" ELSE IF src = "c2" THEN "z" ELSE "q"
ChunksOf(src) == {<<SourceChar(src)>>, <<SourceChar(src), "\n">>}

(***************************************************************************)
(* State.                                                                  *)
(***************************************************************************)
VARIABLES
    panel,          \* this.panel is defined
    html,           \* panel.webview.html
    handlers,       \* listeners registered with panel.webview.onDidReceiveMessage
    ws,             \* this.ws: a slot of socks, 0 for undefined
    socks,          \* the WebSocket objects, by slot; a closed one frees its slot
    logBuffer,      \* this.logBuffer
    timestamp,      \* this.timestamp
    tz,             \* the host's offset from UTC, in minutes
    runtimeConfig,  \* this.runtimeConfig
    isRuntimeLogs,  \* this.isRuntimeLogs
    pending,        \* calls suspended at await getContainersByAppLabel
    delivered,      \* 'message' events emitted so far
    recv,           \* history: the chunks the WebSocket of this.ws has delivered
    last,           \* history: the callback that ran last, and its socket
    arg,            \* the input a function of the pipeline is applied to
    ret,            \* what the function returned
    settings,       \* the settings dokploy.servers and dokploy.activeServerId
    tasks,          \* the server commands in flight
    provider        \* client and matchedEnvironments of DeploymentsProvider

vars == <<panel, html, handlers, ws, socks, logBuffer, timestamp, tz,
          runtimeConfig, isRuntimeLogs, pending, delivered, recv, last,
          arg, ret, settings, tasks, provider>>

\* undefined, for a server id
NoId == ""

NoConfig == [defined |-> FALSE, app |-> "", containers |-> <<>>,
             selectedContainerId |-> "", tail |-> 0]

\* panel.webview.html: which page is shown and what it shows
NoHtml == [view |-> "none", rows |-> <<>>, containers |-> <<>>,
           selected |-> "", tail |-> 0]
BlankHtml == [NoHtml EXCEPT !.view = "blank"]

\* getHtml(content)
GetHtml(rows) == [NoHtml EXCEPT !.view = "logs", !.rows = rows]

\* getRuntimeHtml(content, containers, selectedContainerId, tail)
GetRuntimeHtml(rows, containers, selectedContainerId, tail) ==
    [view |-> "runtime", rows |-> rows, containers |-> containers,
     selected |-> selectedContainerId, tail |-> tail]

\* getEmptyStateHtml(appName)
GetEmptyStateHtml(appName) == [NoHtml EXCEPT !.view = "empty"]

\* readyState and what the library still has to emit:
\*   connecting  the handshake is under way
\*   open        'open' was emitted
\*   aborting    close() was called while connecting: 'error' and 'close' follow
\*   closing     close() was called while open: 'message' may follow, then 'close'
\*   failing     'error' was emitted for a failed handshake, 'close' follows in
\*               the same tick
\*   errored     'error' was emitted on an open connection, 'close' follows
\*   closed      'close' was emitted
SocketStates ==
    {"connecting", "open", "aborting", "closing", "failing", "errored", "closed"}

\* a WebSocket whose 'close' was emitted emits nothing more; its slot is free
DeadSocket == [st |-> "closed", isRuntime |-> FALSE, src |-> "", tail |-> 0]

\* new WebSocket(wsUrl, { headers }) with the handlers of connectWebSocket;
\* src and tail are what the URL names
NewSocket(src, tail, isRuntime) ==
    [st |-> "connecting", isRuntime |-> isRuntime, src |-> src, tail |-> tail]

\* the controller's fields as one record, so that methods are operators on it
Self ==
    [panel |-> panel, html |-> html, handlers |-> handlers,
     ws |-> ws, socks |-> socks, logBuffer |-> logBuffer,
     runtimeConfig |-> runtimeConfig, isRuntimeLogs |-> isRuntimeLogs]

\* S holds a WebSocket that the current state does not: connectWebSocket ran
Created(S) ==
    /\ S.ws # 0
    /\ S.socks[S.ws].st = "connecting"
    /\ ws # S.ws \/ socks[S.ws].st # "connecting"

BecomesWith(S, received) ==
    /\ recv' = received
    /\ panel' = S.panel
    /\ html' = S.html
    /\ handlers' = S.handlers
    /\ ws' = S.ws
    /\ socks' = S.socks
    /\ logBuffer' = S.logBuffer
    /\ runtimeConfig' = S.runtimeConfig
    /\ isRuntimeLogs' = S.isRuntimeLogs
    /\ UNCHANGED <<timestamp, tz, arg, ret, settings, tasks, provider>>

\* a step that delivers no chunk: a new connection has received nothing
Becomes(S) == BecomesWith(S, IF Created(S) THEN <<>> ELSE recv)

(***************************************************************************)
(* Methods of LogsWebview.                                                 *)
(***************************************************************************)
\* WebSocket.close(): the effect on readyState
CloseCall(sock) ==
    IF sock.st = "connecting" THEN [sock EXCEPT !.st = "aborting"]
    ELSE IF sock.st = "open" THEN [sock EXCEPT !.st = "closing"]
    ELSE sock

CloseWebSocket(S) ==
    IF S.ws # 0
    THEN [S EXCEPT !.socks[S.ws] = CloseCall(@), !.ws = 0]
    ELSE S

UpdateContent(S, logContent) ==
    IF ~S.panel THEN S
    ELSE [S EXCEPT !.html = GetHtml(RenderContentLines(logContent, timestamp, tz))]

UpdateRuntimeContent(S, logContent, containers, selectedContainerId, tail) ==
    IF ~S.panel THEN S
    ELSE [S EXCEPT !.html =
              GetRuntimeHtml(RenderRuntimeLines(logContent, timestamp, tz),
                             containers, selectedContainerId, tail)]

DisplayConsuming(S, isRuntime, logContent) ==
    IF isRuntime /\ S.runtimeConfig.defined
    THEN UpdateRuntimeContent([S EXCEPT !.logBuffer = <<>>], logContent,
                              S.runtimeConfig.containers,
                              S.runtimeConfig.selectedContainerId,
                              S.runtimeConfig.tail)
    ELSE UpdateContent([S EXCEPT !.logBuffer = <<>>], logContent)

\* the branch every socket handler takes to display logContent
Display(S, isRuntime, logContent) ==
    IF isRuntime /\ S.runtimeConfig.defined
    THEN UpdateRuntimeContent(S, logContent, S.runtimeConfig.containers,
                              S.runtimeConfig.selectedContainerId,
                              S.runtimeConfig.tail)
    ELSE UpdateContent(S, logContent)

\* the slots whose WebSocket is closed
FreeSlots(S) == {i \in 1..Len(S.socks) : S.socks[i].st = "closed"}

\* the slot a new WebSocket takes: the lowest free one
FreeSlot(S) == CHOOSE i \in FreeSlots(S) : \A j \in FreeSlots(S) : i <= j

ConnectWebSocket(S, src, tail, isRuntime) ==
    LET S1 == CloseWebSocket(S)
        i  == FreeSlot(S1)
    IN  [S1 EXCEPT !.socks[i] = NewSocket(src, tail, isRuntime), !.ws = i]

ConnectToRuntimeLogsReuse(S) ==
    IF ~S.runtimeConfig.defined \/ ~S.panel THEN S
    ELSE IF S.ws # 0 /\ S.socks[S.ws].isRuntime
    THEN UpdateRuntimeContent(S, S.logBuffer, S.runtimeConfig.containers,
                              S.runtimeConfig.selectedContainerId,
                              S.runtimeConfig.tail)
    ELSE ConnectWebSocket([S EXCEPT !.logBuffer = <<>>],
                          S.runtimeConfig.selectedContainerId,
                          S.runtimeConfig.tail, TRUE)

ConnectToRuntimeLogs(S) ==
    IF ~S.runtimeConfig.defined \/ ~S.panel THEN S
    ELSE LET rc == S.runtimeConfig
             S1 == [S EXCEPT !.logBuffer = <<>>]
             S2 == UpdateRuntimeContent(S1, ConnectingText, rc.containers,
                                        rc.selectedContainerId, rc.tail)
         IN  ConnectWebSocket(S2, rc.selectedContainerId, rc.tail, TRUE)

\* createOrRevealPanel (the title aside); a panel that is created has no
\* listener yet
CreateOrRevealPanel(S) ==
    IF S.panel THEN S
    ELSE [S EXCEPT !.panel = TRUE, !.html = BlankHtml, !.handlers = 0]

SetupMessageHandler(S) ==
    IF ~S.panel THEN S ELSE [S EXCEPT !.handlers = @ + 1]

ShowEmptyState(S, appName) ==
    LET S1 == CreateOrRevealPanel(S)
        S2 == [S1 EXCEPT !.isRuntimeLogs = TRUE]
        S3 == SetupMessageHandler(S2)
    IN  IF S3.panel THEN [S3 EXCEPT !.html = GetEmptyStateHtml(appName)] ELSE S3

\* the onDidDispose callback of the panel
OnDidDispose(S) ==
    LET S1 == [S EXCEPT !.panel = FALSE, !.html = NoHtml, !.handlers = 0]
        S2 == CloseWebSocket(S1)
    IN  [S2 EXCEPT !.runtimeConfig = NoConfig, !.isRuntimeLogs = FALSE]

(***************************************************************************)
(* The handlers connectWebSocket registers on a socket.  isRuntime is the  *)
(* argument the closure captured.                                          *)
(***************************************************************************)
OnOpenBuffered(S, isRuntime) ==
    Display([S EXCEPT !.logBuffer = ConnectedText], isRuntime, ConnectedText)

OnOpen(S, isRuntime) ==
    Display([S EXCEPT !.logBuffer = <<>>], isRuntime, ConnectedText)

OnMessageChunkOnly(S, isRuntime, message) ==
    Display([S EXCEPT !.logBuffer = @ \o message], isRuntime, message)

OnMessageUnderPlaceholder(S, isRuntime, message) ==
    LET S1 == [S EXCEPT !.logBuffer = @ \o message]
    IN  Display(S1, isRuntime, ConnectedText \o <<"\n">> \o S1.logBuffer)

OnMessage(S, isRuntime, message) ==
    LET S1 == [S EXCEPT !.logBuffer = @ \o message]
    IN  Display(S1, isRuntime, S1.logBuffer)

OnErrorAppended(S, isRuntime, reason) ==
    LET errorContent ==
            S.logBuffer \o <<"\n", "\n">> \o ConnectionErrorPrefix \o reason
    IN  Display(S, isRuntime, errorContent)

OnError(S, isRuntime, reason) ==
    LET errorContent ==
            ConnectionErrorPrefix \o reason \o <<"\n", "\n">> \o S.logBuffer
    IN  Display(S, isRuntime, errorContent)

OnCloseUnguarded(S, isRuntime) ==
    Display(S, isRuntime, S.logBuffer \o <<"\n", "\n">> \o StreamEndedText)

OnCloseReconnect(S, isRuntime) ==
    LET S1 == IF S.logBuffer # <<>>
              THEN Display(S, isRuntime,
                           S.logBuffer \o <<"\n", "\n">> \o StreamEndedText)
              ELSE S
    IN  IF isRuntime THEN ConnectToRuntimeLogs(S1) ELSE S1

OnClose(S, isRuntime) ==
    IF S.logBuffer # <<>>
    THEN LET closedContent == S.logBuffer \o <<"\n", "\n">> \o StreamEndedText
         IN  Display(S, isRuntime, closedContent)
    ELSE S

(***************************************************************************)
(* Steps.  A step is one callback run to completion.                       *)
(***************************************************************************)
\* no socket is between the 'error' and the 'close' of a failed handshake,
\* which the library emits in one tick
Ran(op, sock) == [op |-> op, sock |-> sock]

Idle == \A i \in 1..Len(socks) : socks[i].st # "failing"

PendingCalls == pending.show + pending.refresh

\* the controller as extension.ts constructs it
Constructed ==
    /\ panel = FALSE
    /\ html = NoHtml
    /\ handlers = 0
    /\ ws = 0
    /\ socks = [i \in 1..MaxSockets |-> DeadSocket]
    /\ logBuffer = <<>>
    /\ timestamp = FALSE
    /\ tz = 0
    /\ runtimeConfig = NoConfig
    /\ isRuntimeLogs = FALSE
    /\ pending = [show |-> 0, refresh |-> 0]
    /\ delivered = 0
    /\ recv = <<>>
    /\ last = Ran("init", 0)
    /\ settings = [servers |-> <<>>, activeServerId |-> NoId]
    /\ tasks = {}
    /\ provider = [client |-> NoId, matchedEnvironments |-> <<>>]

\* no function under study
Nothing == [fn |-> "none"]

Init ==
    /\ Constructed
    /\ arg = Nothing
    /\ ret = Nothing

\* showRuntimeLogs up to its await
ShowRuntimeLogs ==
    /\ last' = Ran("showRuntimeLogs", 0)
    /\ Idle
    /\ handlers + PendingCalls < MaxHandlers
    /\ pending' = [pending EXCEPT !.show = @ + 1]
    /\ UNCHANGED delivered
    /\ Becomes(Self)

\* showRuntimeLogs from the await on, getContainersByAppLabel having resolved
\* to containers
ShowRuntimeLogsResolved(containers) ==
    /\ last' = Ran("showRuntimeLogsResolved", 0)
    /\ Idle
    /\ pending.show > 0
    /\ panel => handlers < MaxHandlers
    /\ FreeSlots(Self) # {}
    /\ pending' = [pending EXCEPT !.show = @ - 1]
    /\ UNCHANGED delivered
    /\ IF Len(containers) = 0
       THEN Becomes(ShowEmptyState(Self, App))
       ELSE LET S1 == [Self EXCEPT
                          !.runtimeConfig =
                              [defined |-> TRUE, app |-> App,
                               containers |-> containers,
                               selectedContainerId |-> containers[1],
                               tail |-> DefaultTail],
                          !.isRuntimeLogs = TRUE]
                S2 == CreateOrRevealPanel(S1)
                S3 == SetupMessageHandler(S2)
            IN  Becomes(ConnectToRuntimeLogs(S3))

ShowWithWebSocket ==
    /\ last' = Ran("showWithWebSocket", 0)
    /\ Idle
    /\ FreeSlots(Self) # {}
    /\ LET S1 == [Self EXCEPT !.isRuntimeLogs = FALSE, !.runtimeConfig = NoConfig]
           S2 == CreateOrRevealPanel(S1)
           S3 == [S2 EXCEPT !.logBuffer = <<>>]
           S4 == UpdateContent(S3, ConnectingText)
       IN  Becomes(ConnectWebSocket(S4, Deployment, 0, FALSE))
    /\ UNCHANGED <<pending, delivered>>

\* one listener of onDidReceiveMessage run n times over
RECURSIVE ChangeContainerBy(_, _, _)
ChangeContainerBy(S, containerId, n) ==
    IF n = 0 THEN S
    ELSE LET S1 == IF ~S.runtimeConfig.defined THEN S
                   ELSE IF containerId # ""
                        THEN ConnectToRuntimeLogs(
                                 [S EXCEPT !.runtimeConfig.selectedContainerId =
                                               containerId])
                        ELSE S
         IN  ChangeContainerBy(S1, containerId, n - 1)

RECURSIVE ChangeTailResetting(_, _, _)
ChangeTailResetting(S, tail, n) ==
    IF n = 0 THEN S
    ELSE LET S1 == IF ~S.runtimeConfig.defined THEN S
                   ELSE IF tail # 0
                        THEN ConnectToRuntimeLogs(
                                 [S EXCEPT !.runtimeConfig.tail = tail,
                                           !.runtimeConfig.selectedContainerId =
                                               S.runtimeConfig.containers[1]])
                        ELSE S
         IN  ChangeTailResetting(S1, tail, n - 1)

RECURSIVE ChangeTailBy(_, _, _)
ChangeTailBy(S, tail, n) ==
    IF n = 0 THEN S
    ELSE LET S1 == IF ~S.runtimeConfig.defined THEN S
                   ELSE IF tail # 0
                        THEN ConnectToRuntimeLogs(
                                 [S EXCEPT !.runtimeConfig.tail = tail])
                        ELSE S
         IN  ChangeTailBy(S1, tail, n - 1)

\* the runtime page posts { command: 'changeContainer', containerId } when
\* another option of its container selector is chosen; every registered
\* listener handles it
ChangeContainer(containerId) ==
    /\ last' = Ran("changeContainer", 0)
    /\ Idle
    /\ panel /\ handlers > 0
    /\ html.view = "runtime"
    /\ \E k \in 1..Len(html.containers) : html.containers[k] = containerId
    /\ containerId # html.selected
    /\ Cardinality(FreeSlots(Self)) >= handlers
    /\ Becomes(ChangeContainerBy(Self, containerId, handlers))
    /\ UNCHANGED <<pending, delivered>>

\* the runtime page posts { command: 'changeTail', tail } when another option
\* of its tail selector is chosen
ChangeTail(tail) ==
    /\ last' = Ran("changeTail", 0)
    /\ Idle
    /\ panel /\ handlers > 0
    /\ html.view = "runtime"
    /\ tail # html.tail
    /\ Cardinality(FreeSlots(Self)) >= handlers
    /\ Becomes(ChangeTailBy(Self, tail, handlers))
    /\ UNCHANGED <<pending, delivered>>

\* the empty-state page posts { command: 'refresh' }: every listener that
\* finds a runtimeConfig calls getContainersByAppLabel and awaits it
Refresh ==
    /\ last' = Ran("refresh", 0)
    /\ Idle
    /\ panel /\ handlers > 0
    /\ html.view = "empty"
    /\ runtimeConfig.defined => PendingCalls = 0
    /\ pending' = IF runtimeConfig.defined
                  THEN [pending EXCEPT !.refresh = @ + handlers]
                  ELSE pending
    /\ UNCHANGED delivered
    /\ Becomes(Self)

\* the refresh case from its await on.  With runtimeConfig undefined by now,
\* reading this.runtimeConfig.app throws and the listener's promise rejects.
RefreshResolved(containers) ==
    /\ last' = Ran(IF runtimeConfig.defined THEN "refreshResolved"
                   ELSE "refreshThrew", 0)
    /\ Idle
    /\ pending.refresh > 0
    /\ (runtimeConfig.defined /\ Len(containers) = 0) => handlers < MaxHandlers
    /\ FreeSlots(Self) # {}
    /\ pending' = [pending EXCEPT !.refresh = @ - 1]
    /\ UNCHANGED delivered
    /\ IF ~runtimeConfig.defined
       THEN Becomes(Self)
       ELSE IF Len(containers) = 0
            THEN Becomes(ShowEmptyState(Self, runtimeConfig.app))
            ELSE Becomes(ConnectToRuntimeLogs(
                     [Self EXCEPT
                         !.runtimeConfig.containers = containers,
                         !.runtimeConfig.selectedContainerId = containers[1]]))

\* getContainersByAppLabel rejects: showRuntimeLogs throws at its await, and
\* the viewRuntimeLogs command catches and shows an error notification
ShowRuntimeLogsRejected ==
    /\ last' = Ran("showRuntimeLogsRejected", 0)
    /\ Idle
    /\ pending.show > 0
    /\ pending' = [pending EXCEPT !.show = @ - 1]
    /\ UNCHANGED delivered
    /\ Becomes(Self)

\* getContainersByAppLabel rejects in the refresh case: the listener's promise
\* rejects and nothing handles it
RefreshRejected ==
    /\ last' = Ran("refreshRejected", 0)
    /\ Idle
    /\ pending.refresh > 0
    /\ pending' = [pending EXCEPT !.refresh = @ - 1]
    /\ UNCHANGED delivered
    /\ Becomes(Self)

\* no call, handshake or close is under way
Quiet ==
    /\ Idle
    /\ PendingCalls = 0
    /\ \A i \in 1..Len(socks) : socks[i].st \in {"open", "closed"}

AutoRefreshListing ==
    /\ last' = Ran("autoRefresh", 0)
    /\ Quiet
    /\ last.op # "autoRefresh"
    /\ pending' = [pending EXCEPT !.show = @ + 1]
    /\ UNCHANGED delivered
    /\ Becomes(Self)

\* the callback of the auto-refresh timer: provider.refresh() fires the tree's
\* change event and touches no field of the controller.  The period is a
\* number of seconds: a tick is taken while the controller is quiet
AutoRefresh ==
    /\ last' = Ran("autoRefresh", 0)
    /\ Quiet
    /\ last.op # "autoRefresh"
    /\ UNCHANGED <<pending, delivered>>
    /\ Becomes(Self)

\* the user closes the panel
PanelClosed ==
    /\ last' = Ran("panelClosed", 0)
    /\ Idle
    /\ panel
    /\ Becomes(OnDidDispose(Self))
    /\ UNCHANGED <<pending, delivered>>

CanDeliverAlways(sock) == TRUE

\* the library emits 'message' on a connection that is open, and on one that
\* close() was called on until its closing handshake ends
CanDeliver(sock) == sock.st \in {"open", "closing"}

\* 'open' of socket i
WsOpen(i) ==
    /\ last' = Ran("open", i)
    /\ Idle
    /\ socks[i].st = "connecting"
    /\ Becomes(OnOpen([Self EXCEPT !.socks[i].st = "open"], socks[i].isRuntime))
    /\ UNCHANGED <<pending, delivered>>

\* 'message' of socket i: a chunk of its source.  A connection that close()
\* was called on still delivers what arrives before the closing handshake ends.
WsMessage(i, chunk) ==
    /\ last' = Ran("message", i)
    /\ Idle
    /\ CanDeliver(socks[i])
    /\ delivered < MaxChunks
    /\ delivered' = delivered + 1
    /\ BecomesWith(OnMessage(Self, socks[i].isRuntime, chunk),
                   IF i = ws THEN recv \o chunk ELSE recv)
    /\ UNCHANGED pending

\* 'error' of socket i whose handshake failed or was aborted by close()
WsHandshakeError(i) ==
    /\ last' = Ran("error", i)
    /\ Idle
    /\ socks[i].st \in {"connecting", "aborting"}
    /\ Becomes(OnError([Self EXCEPT !.socks[i].st = "failing"], socks[i].isRuntime,
                       IF socks[i].st = "aborting" THEN AbortReason
                       ELSE TransportReason))
    /\ UNCHANGED <<pending, delivered>>

\* 'error' of socket i while open
WsError(i) ==
    /\ last' = Ran("error", i)
    /\ Idle
    /\ socks[i].st = "open"
    /\ Becomes(OnError([Self EXCEPT !.socks[i].st = "errored"], socks[i].isRuntime,
                       TransportReason))
    /\ UNCHANGED <<pending, delivered>>

\* 'close' of socket i
WsClose(i) ==
    /\ last' = Ran("close", i)
    /\ socks[i].st \in {"open", "closing", "failing", "errored"}
    /\ socks[i].st # "failing" => Idle
    /\ Becomes(OnClose([Self EXCEPT !.socks[i] = DeadSocket], socks[i].isRuntime))
    /\ UNCHANGED <<pending, delivered>>

Next ==
    \/ ShowRuntimeLogs
    \/ \E containers \in ContainerLists : ShowRuntimeLogsResolved(containers)
    \/ ShowWithWebSocket
    \/ \E containerId \in ContainerIds : ChangeContainer(containerId)
    \/ \E tail \in TailOptions : ChangeTail(tail)
    \/ Refresh
    \/ \E containers \in ContainerLists : RefreshResolved(containers)
    \/ ShowRuntimeLogsRejected
    \/ RefreshRejected
    \/ PanelClosed
    \/ AutoRefresh
    \/ \E i \in 1..Len(socks) :
           \/ WsOpen(i)
           \/ \E chunk \in ChunksOf(socks[i].src) : WsMessage(i, chunk)
           \/ WsHandshakeError(i)
           \/ WsError(i)
           \/ WsClose(i)

Spec == Init /\ [][Next]_vars

(***************************************************************************)
(* The functions of the pipeline applied to inputs of their own: a second  *)
(* specification, in which the controller stays as constructed, arg is the *)
(* input and ret the value returned.                                       *)
(***************************************************************************)
\* fragments of a message per line, lines per chunk
MaxFragments == 2
MaxLines == 2

\* the rule groups of getLogType in their order, debug last
GroupOrder == <<"error", "warning", "success", "info", "debug">>

\* fragments of log messages, each with the first rule group it matches
Fragments ==
    {[text |-> <<"f", "a", "i", "l", "e", "d">>,               group |-> "error"],
     [text |-> <<"[", "F", "A", "T", "A", "L", "]">>,              group |-> "error"],
     [text |-> <<"E", "R", "R", ":", " ", "x">>,               group |-> "error"],
     [text |-> <<"w", "a", "r", "n", ":", " ", "x">>,              group |-> "warning"],
     [text |-> <<"D", "e", "p", "r", "e", "c", "a", "t", "e", "d">>,           group |-> "warning"],
     [text |-> <<"s", "u", "c", "c", "e", "s", "s", "f", "u", "l", "l", "y", " ", "s", "t", "a", "r", "t", "e", "d">>, group |-> "success"],
     [text |-> <<"[", "o", "k", "]">>,                 group |-> "success"],
     [text |-> <<"r", "e", "a", "d", "y">>,                group |-> "success"],
     [text |-> <<"I", "N", "F", "O", ":", " ", "x">>,              group |-> "info"],
     [text |-> <<"b", "u", "i", "l", "d", "i", "n", "g">>,             group |-> "info"],
     [text |-> <<"h", "e", "l", "l", "o">>,                group |-> "debug"]}

\* the example of a message with an error marker and a success marker
MixedExample ==
    [text  |-> <<"B", "u", "i", "l", "d", " ", "f", "a", "i", "l", "e", "d", ":", " ", "d", "e", "p", "l", "o", "y", "m", "e", "n", "t", " ", "w", "a", "s", " ", "n", "o", "t", " ", "c", "o", "m", "p", "l", "e", "t", "e", "d", " ", "s", "u", "c", "c", "e", "s", "s", "f", "u", "l", "l", "y">>,
     group |-> "error"]

\* the fragments joined by single spaces
RECURSIVE JoinTexts(_)
JoinTexts(parts) ==
    IF Len(parts) = 0 THEN <<>>
    ELSE IF Len(parts) = 1 THEN parts[1].text
    ELSE parts[1].text \o <<" ">> \o JoinTexts(Tail(parts))

FragmentLists ==
    UNION {[1..n -> Fragments] : n \in 1..MaxFragments} \cup {<<MixedExample>>}

ClassifyArgs == {[fn |-> "classify", parts |-> ps] : ps \in FragmentLists}

\* the position in GroupOrder of the first group one of the fragments matches
FirstGroup(parts) ==
    GroupOrder[CHOOSE g \in 1..5 :
                   /\ \E k \in 1..Len(parts) : parts[k].group = GroupOrder[g]
                   /\ \A k \in 1..Len(parts) :
                          \A h \in 1..(g - 1) : parts[k].group # GroupOrder[h]]

\* calendar fields of the timestamps lines start with; the last two are no
\* dates
Stamps ==
    {[y |-> 2024, mo |-> 1,  d |-> 5,  h |-> 10, mi |-> 0,  s |-> 0],
     [y |-> 2023, mo |-> 12, d |-> 31, h |-> 23, mi |-> 59, s |-> 59],
     [y |-> 2024, mo |-> 13, d |-> 45, h |-> 10, mi |-> 0,  s |-> 0],
     [y |-> 2024, mo |-> 1,  d |-> 5,  h |-> 25, mi |-> 0,  s |-> 0]}

IsCalendarDate(c) ==
    c.mo \in 1..12 /\ c.d \in 1..31 /\ c.h \in 0..23 /\ c.mi \in 0..59
        /\ c.s \in 0..59

\* YYYY-MM-DD<sep>HH:MM:SS
StampString(c, sep) ==
    NumToText(c.y) \o <<"-">> \o Pad(c.mo) \o <<"-">> \o Pad(c.d) \o sep
        \o Pad(c.h) \o <<":">> \o Pad(c.mi) \o <<":">> \o Pad(c.s)

\* the instant the fields name when read as UTC, ms milliseconds past it
UtcInstant(c, ms) ==
    [day |-> DaysFromCivil(c.y, c.mo, c.d),
     sec |-> c.h * 3600 + c.mi * 60 + c.s,
     ms  |-> ms]

Separators == {<<"T">>, <<" ">>}
Fractions == {[text |-> <<>>, ms |-> 0], [text |-> <<".", "5">>, ms |-> 500]}
Zones == {<<>>, <<"Z">>, <<" ", "U", "T", "C">>}
Gaps == {<<" ">>, <<" ", " ">>}
Messages == {<<"h", "e", "l", "l", "o">>, <<"L", "i", "s", "t", "e", "n", "i", "n", "g", " ", "o", "n", " ", "p", "o", "r", "t", " ", "3", "0", "0", "0", " ", " ">>}
\* offsets of the host's time zone from UTC, in minutes
HostZones == {0, 60, -330}

\* lines that start with a timestamp, then whitespace, then a message
StampedArgs ==
    {[fn |-> "parse", stamped |-> TRUE, date |-> c, ms |-> f.ms, zone |-> z,
      msg |-> m, tzMin |-> o,
      line |-> StampString(c, sep) \o f.text \o z \o gap \o m] :
        c \in Stamps, sep \in Separators, f \in Fractions, z \in Zones,
        gap \in Gaps, m \in Messages, o \in HostZones}

\* lines that do not start with a timestamp
PlainLines ==
    {<<"h", "e", "l", "l", "o">>, <<" ", " ", "h", "e", "l", "l", "o", " ", " ">>, <<"E", "R", "R", "O", "R", ":", " ", "x", " ">>, <<"2", "0", "2", "4", "-", "0", "1", "-", "0", "5", " ", "h", "e", "l", "l", "o">>,
     <<"2", "0", "2", "4", "-", "1", "-", "0", "5", "T", "1", "0", ":", "0", "0", ":", "0", "0", "Z", " ", "x">>, <<"2", "0", "2", "4", "0", "1", "0", "5", "T", "1", "0", "0", "0", "0", "0", "Z", " ", "x">>,
     <<"x", " ", "2", "0", "2", "4", "-", "0", "1", "-", "0", "5", "T", "1", "0", ":", "0", "0", ":", "0", "0", "Z", " ", "y">>, <<" ", "2", "0", "2", "4", "-", "0", "1", "-", "0", "5", "T", "1", "0", ":", "0", "0", ":", "0", "0", "Z", " ", "y">>, <<>>}

PlainArgs ==
    {[fn |-> "parse", stamped |-> FALSE, tzMin |-> o, line |-> l] :
        l \in PlainLines, o \in HostZones}

\* cut points of a text delivered in MaxCuts + 1 chunks
MaxCuts == 2

SampleLines ==
    {<<"E", "R", "R", "O", "R", ":", " ", "c", "o", "n", "n", "e", "c", "t", "i", "o", "n", " ", "r", "e", "f", "u", "s", "e", "d">>, <<"I", "N", "F", "O", ":", " ", "r", "e", "t", "r", "y", "i", "n", "g">>,
     <<"2", "0", "2", "4", "-", "0", "1", "-", "0", "5", "T", "1", "0", ":", "0", "0", ":", "0", "0", "Z", " ", "L", "i", "s", "t", "e", "n", "i", "n", "g", " ", "o", "n", " ", "p", "o", "r", "t", " ", "3", "0", "0", "0">>}

LineLists == UNION {[1..n -> SampleLines] : n \in 1..MaxLines}

RenderArgs ==
    {[fn |-> "render", lines |-> ls, isRuntime |-> b] :
        ls \in LineLists, b \in BOOLEAN}

\* the chunk of the lines, each ended by a line break
RECURSIVE Terminated(_)
Terminated(lines) ==
    IF Len(lines) = 0 THEN <<>>
    ELSE lines[1] \o <<"\n">> \o Terminated(Tail(lines))

ChunkTexts == {<<"E", "R", "R", ":", " ", "a", "\n", "r", "e", "a", "d", "y", "\n">>, <<"2", "0", "2", "4", "-", "0", "1", "-", "0", "5", "T", "1", "0", ":", "0", "0", ":", "0", "0", "Z", " ", "u", "p", "\n", "x">>}

\* MaxCuts cut points of a text, in order
CutsOf(text) ==
    {cs \in [1..MaxCuts -> 0..Len(text)] :
        \A k \in 1..(MaxCuts - 1) : cs[k] <= cs[k + 1]}

ChunkArgs ==
    UNION {{[fn |-> "chunks", text |-> t, cuts |-> cs, isRuntime |-> b] :
               cs \in CutsOf(t), b \in BOOLEAN} : t \in ChunkTexts}

\* payloads of changeTail and changeContainer messages; 0 and "" stand for
\* the falsy payloads (missing, NaN, zero, empty)
IntentArgs ==
    {[fn |-> "intent", command |-> "changeTail", tail |-> n, containerId |-> ""] :
        n \in {0, -5, 500}}
    \cup
    {[fn |-> "intent", command |-> "changeContainer", tail |-> 0,
      containerId |-> id] : id \in {"", "c9", "c2"}}

\* lines of a buffer, empty and blank ones among them
SpacingLines == {<<>>, <<" ", " ">>, <<"\t", "\r">>, <<"I", "N", "F", "O", ":", " ", "r", "e", "t", "r", "y", "i", "n", "g">>}

SpacingArgs ==
    {[fn |-> "spacing", lines |-> ls, isRuntime |-> b] :
        ls \in UNION {[1..n -> SpacingLines] : n \in 1..(MaxLines + 1)},
        b \in BOOLEAN}

\* the lines with a line break between them
RECURSIVE JoinLines(_)
JoinLines(lines) ==
    IF Len(lines) = 0 THEN <<>>
    ELSE IF Len(lines) = 1 THEN lines[1]
    ELSE lines[1] \o <<"\n">> \o JoinLines(Tail(lines))

\* lines that share a message and differ in their timestamps
RepeatedLines ==
    {<<"E", "R", "R", "O", "R", ":", " ", "x">>, <<"2", "0", "2", "4", "-", "0", "1", "-", "0", "5", "T", "1", "0", ":", "0", "0", ":", "0", "0", "Z", " ", "E", "R", "R", "O", "R", ":", " ", "x">>,
     <<"a", "t", " ", "f", " ", "(", "a", ":", "1", ":", "2", ")">>, <<"2", "0", "2", "3", "-", "1", "2", "-", "3", "1", " ", "2", "3", ":", "5", "9", ":", "5", "9", " ", " ", "a", "t", " ", "f", " ", "(", "a", ":", "1", ":", "2", ")">>,
     <<"2", "0", "2", "4", "-", "0", "1", "-", "0", "5", "T", "1", "0", ":", "0", "0", ":", "0", "0", "Z", " ", "r", "e", "a", "d", "y">>}

BufferArgs ==
    {[fn |-> "buffer", lines |-> ls, isRuntime |-> b] :
        ls \in UNION {[1..n -> RepeatedLines] : n \in 1..(MaxLines + 1)},
        b \in BOOLEAN}

\* a session whose panel is closed while its connection is connecting or
\* open, the event the connection emits afterwards, and the view the panel is
\* opened with again before that event, if it is
DisposeArgs ==
    {[fn |-> "dispose", isRuntime |-> b, opened |-> o, event |-> e,
      again |-> a] :
        b \in BOOLEAN, o \in BOOLEAN, e \in {"message", "error", "close"},
        a \in {"none", "deployment", "runtime"}}

(***************************************************************************)
(* GitService and the matching of DeploymentsProvider.                     *)
(***************************************************************************)
\* an undefined property of an application
Undefined == <<"undefined">>

\* !value for a string or undefined
Falsy(value) == value = Undefined \/ value = <<>>

NoRepositoryInfo == [defined |-> FALSE]

DotGit == <<".", "g", "i", "t">>

\* the group (.+?) of (.+?)(?:\.git)?$ applied to the rest of the url: the
\* shortest non-empty prefix followed by nothing or by ".git"
LazyRepo(rest) ==
    IF Len(rest) > Len(DotGit) /\ At(rest, Len(rest) - Len(DotGit) + 1, DotGit)
    THEN SubSeq(rest, 1, Len(rest) - Len(DotGit))
    ELSE rest

\* ([^/]+)\/(.+?)(?:\.git)?$ applied to the text after the host
OwnerAndRepo(path) ==
    IF IndexOf(path, <<"/">>) > 1 /\ IndexOf(path, <<"/">>) < Len(path)
    THEN [defined |-> TRUE,
          owner   |-> SubSeq(path, 1, IndexOf(path, <<"/">>) - 1),
          repo    |-> LazyRepo(Tail_(path, IndexOf(path, <<"/">>) + 1))]
    ELSE NoRepositoryInfo

\* ^git@([^:]+): then the owner and the repository
SshMatch(url) ==
    IF At(url, 1, <<"g", "i", "t", "@">>) /\ IndexOf(Tail_(url, Len(<<"g", "i", "t", "@">>) + 1), <<":">>) > 1
    THEN OwnerAndRepo(Tail_(url, Len(<<"g", "i", "t", "@">>) + IndexOf(Tail_(url, Len(<<"g", "i", "t", "@">>) + 1), <<":">>) + 1))
    ELSE NoRepositoryInfo

\* the text after ^https?:\/\/ , undefined without that prefix
AfterScheme(url) ==
    IF At(url, 1, <<"h", "t", "t", "p", "s", ":", "/", "/">>) THEN Tail_(url, Len(<<"h", "t", "t", "p", "s", ":", "/", "/">>) + 1)
    ELSE IF At(url, 1, <<"h", "t", "t", "p", ":", "/", "/">>) THEN Tail_(url, Len(<<"h", "t", "t", "p", ":", "/", "/">>) + 1)
    ELSE Undefined

\* ^https?:\/\/[^/]+\/ then the owner and the repository
HttpsMatch(url) ==
    IF AfterScheme(url) # Undefined /\ IndexOf(AfterScheme(url), <<"/">>) > 1
    THEN OwnerAndRepo(Tail_(AfterScheme(url), IndexOf(AfterScheme(url), <<"/">>) + 1))
    ELSE NoRepositoryInfo

parseRemoteUrl(url) ==
    IF SshMatch(url).defined THEN SshMatch(url) ELSE HttpsMatch(url)

\* remote: what `git remote get-url origin` gives in the first workspace
\* folder ("none": no folder, "fails": the command fails)
getRepositoryInfo(remote) ==
    IF remote.kind = "url" THEN parseRemoteUrl(Trim(remote.stdout))
    ELSE NoRepositoryInfo

\* appRepo.replace(/\.git$/, '')
StripDotGit(appRepo) ==
    IF At(appRepo, Len(appRepo) - Len(DotGit) + 1, DotGit)
    THEN SubSeq(appRepo, 1, Len(appRepo) - Len(DotGit))
    ELSE appRepo

matchesRepository(appRepo, appOwner, repoInfo) ==
    IF Falsy(appRepo) \/ Falsy(appOwner) THEN FALSE
    ELSE /\ ToLowerCase(StripDotGit(appRepo)) = ToLowerCase(repoInfo.repo)
         /\ ToLowerCase(appOwner) = ToLowerCase(repoInfo.owner)

\* the environments of all projects, in the order of the two loops
RECURSIVE Environments(_)
Environments(projects) ==
    IF Len(projects) = 0 THEN <<>>
    ELSE Head(projects).environments \o Environments(Tail(projects))

\* one environment with the applications that match
MatchedIn(env, repoInfo) ==
    [environment  |-> env,
     applications |-> SelectSeq(env.applications,
                         LAMBDA app : matchesRepository(app.repository, app.owner, repoInfo))]

RECURSIVE MatchedEnvs(_, _)
MatchedEnvs(envs, repoInfo) ==
    IF Len(envs) = 0 THEN <<>>
    ELSE (IF Len(MatchedIn(Head(envs), repoInfo).applications) > 0
          THEN <<MatchedIn(Head(envs), repoInfo)>> ELSE <<>>)
         \o MatchedEnvs(Tail(envs), repoInfo)

findMatchingEnvironments(projects, repoInfo) ==
    IF ~repoInfo.defined THEN <<>>
    ELSE MatchedEnvs(Environments(projects), repoInfo)

\* DeploymentsProvider.initialize: the fields it leaves behind; completed
\* tells that the projects were fetched and matched without an exception
initialize(remote, server, projects) ==
    IF ~server.active \/ ~server.apiKey \/ ~server.reachable
    THEN [fn |-> "initialize", completed |-> FALSE, client |-> FALSE,
          repoInfo |-> getRepositoryInfo(remote), matchedEnvironments |-> <<>>]
    ELSE [fn |-> "initialize", completed |-> TRUE,
          client |-> Len(findMatchingEnvironments(projects, getRepositoryInfo(remote))) > 0,
          repoInfo |-> getRepositoryInfo(remote),
          matchedEnvironments |-> findMatchingEnvironments(projects, getRepositoryInfo(remote))]

\* the owner and the repository the remotes below name
Origin == [owner |-> <<"a", "c", "m", "e">>, repo |-> <<"w", "e", "b">>]

\* outputs of `git remote get-url origin` for that repository (the last one
\* ssh://, a form parseRemoteUrl does not recognise), and no remote at all.
\* form tells how the url is written
Remotes ==
    {[kind |-> "url", form |-> "scp",   stdout |-> <<"g", "i", "t", "@", "h", ".", "i", "o", ":", "a", "c", "m", "e", "/", "w", "e", "b", ".", "g", "i", "t", "\n">>],
     [kind |-> "url", form |-> "scp",   stdout |-> <<"g", "i", "t", "@", "h", ".", "i", "o", ":", "A", "c", "m", "e", "/", "W", "e", "b", "\n">>],
     [kind |-> "url", form |-> "https", stdout |-> <<"h", "t", "t", "p", "s", ":", "/", "/", "h", ".", "i", "o", "/", "a", "c", "m", "e", "/", "w", "e", "b", ".", "g", "i", "t", "\n">>],
     [kind |-> "url", form |-> "https", stdout |-> <<"h", "t", "t", "p", ":", "/", "/", "h", ".", "i", "o", "/", "A", "C", "M", "E", "/", "w", "e", "b", "\n">>],
     [kind |-> "url", form |-> "https", stdout |-> <<"h", "t", "t", "p", "s", ":", "/", "/", "h", ".", "i", "o", "/", "a", "c", "m", "e", "/", "w", "e", "b", "/", "\n">>],
     [kind |-> "url", form |-> "other", stdout |-> <<"s", "s", "h", ":", "/", "/", "g", "i", "t", "@", "h", ".", "i", "o", "/", "a", "c", "m", "e", "/", "w", "e", "b", ".", "g", "i", "t", "\n">>],
     [kind |-> "fails", form |-> "none", stdout |-> <<>>],
     [kind |-> "none", form |-> "none", stdout |-> <<>>]}

AppsOfFirst ==
    <<[name |-> "web",    owner |-> <<"a", "c", "m", "e">>,  repository |-> <<"w", "e", "b">>],
      [name |-> "fork",   owner |-> <<"o", "t", "h", "e", "r">>, repository |-> <<"w", "e", "b">>],
      [name |-> "manual", owner |-> Undefined, repository |-> <<"w", "e", "b">>]>>

AppsOfSecond ==
    <<[name |-> "staging", owner |-> <<"A", "c", "m", "e">>, repository |-> <<"W", "e", "b", ".", "g", "i", "t">>],
      [name |-> "api",     owner |-> <<"a", "c", "m", "e">>, repository |-> <<"a", "p", "i">>],
      [name |-> "image",   owner |-> <<"a", "c", "m", "e">>, repository |-> Undefined]>>

\* the applications of apps that are in chosen, in the order of apps
Chosen(apps, chosen) == SelectSeq(apps, LAMBDA app : app \in chosen)

Range(s) == {s[i] : i \in DOMAIN s}

\* one project with two environments
ProjectsOf(first, second) ==
    <<[name |-> "p",
       environments |-> <<[name |-> "production", applications |-> first],
                          [name |-> "preview",    applications |-> second]>>]>>

Servers ==
    {[active |-> TRUE,  apiKey |-> TRUE,  reachable |-> TRUE],
     [active |-> TRUE,  apiKey |-> TRUE,  reachable |-> FALSE],
     [active |-> TRUE,  apiKey |-> FALSE, reachable |-> TRUE],
     [active |-> FALSE, apiKey |-> FALSE, reachable |-> TRUE]}

DetectArgs ==
    {[fn |-> "initialize", remote |-> r, server |-> s,
      projects |-> ProjectsOf(Chosen(AppsOfFirst, a), Chosen(AppsOfSecond, b))] :
        r \in Remotes, s \in Servers,
        a \in SUBSET Range(AppsOfFirst), b \in SUBSET Range(AppsOfSecond)}

\* length of the texts escapeHtml is applied to
MaxText == 3

\* the five characters escapeHtml replaces and two it keeps
EscapeAlphabet == {"&", "<", ">", "\"", "'", "a", ";"}

EscapeArgs ==
    {[fn |-> "escape", text |-> t] :
        t \in UNION {[1..n -> EscapeAlphabet] : n \in 0..MaxText}
                \cup {<<"&", "a", "m", "p", ";">>, <<"&", "l", "t", ";", "b", "&", "g", "t", ";">>, <<"<", "a", " ", "h", "r", "e", "f", "=", "\"", "x", "\"", ">", "i", "t", "'", "s", "<", "/", "a", ">">>}}

\* lines for the two rendering paths: with and without a timestamp, blank
PathLines ==
    SampleLines \cup SpacingLines
        \cup {<<"2", "0", "2", "4", "-", "0", "1", "-", "0", "5", " ", "1", "0", ":", "0", "0", ":", "0", "0", " ", "U", "T", "C", " ", "W", "A", "R", "N", ":", " ", "d", "i", "s", "k">>, <<"2", "0", "2", "4", "-", "1", "3", "-", "4", "5", "T", "1", "0", ":", "0", "0", ":", "0", "0", "Z", " ", "x">>}

PathArgs ==
    {[fn |-> "paths", line |-> l, showTs |-> b, tzMin |-> o] :
        l \in PathLines, b \in BOOLEAN, o \in HostZones}

\* applications runtime logs are asked for
Apps == {App, "app2"}

\* what getContainersByAppLabel resolves to in the races
Listings == ContainerLists \cup {<<"c2">>}

\* a request: showRuntimeLogs of app, showWithWebSocket, or a refresh intent;
\* containers is what its listing resolves to
Request(kind, app, containers) == [kind |-> kind, app |-> app, containers |-> containers]

ShowRequests == {Request("showRuntimeLogs", a, cs) : a \in Apps, cs \in Listings}

DeploymentRequest == Request("showWithWebSocket", "", <<>>)

RefreshRequests == {Request("refresh", App, cs) : cs \in Listings}

\* two requests issued one after the other; inOrder tells whether the listing
\* of the first completes first
RaceArgs ==
    {[fn |-> "race", first |-> r1, second |-> r2, inOrder |-> b] :
        r1 \in ShowRequests, r2 \in ShowRequests, b \in BOOLEAN}
    \cup {[fn |-> "race", first |-> r1, second |-> DeploymentRequest, inOrder |-> FALSE] :
             r1 \in ShowRequests}
    \cup {[fn |-> "race", first |-> DeploymentRequest, second |-> r2, inOrder |-> TRUE] :
             r2 \in ShowRequests}
    \cup {[fn |-> "race", first |-> r1, second |-> r2, inOrder |-> b] :
             r1 \in RefreshRequests, r2 \in RefreshRequests, b \in BOOLEAN}

\* a changeContainer message for a container of the page of c1 and c2, handled
\* after showRuntimeLogs of another application has resolved to listing
ChoiceArgs ==
    {[fn |-> "choice", listing |-> cs, containerId |-> id] :
        cs \in Listings \ {<<>>}, id \in ContainerIds}

Args == ClassifyArgs \cup StampedArgs \cup PlainArgs \cup RenderArgs
            \cup ChunkArgs \cup IntentArgs \cup SpacingArgs \cup BufferArgs
            \cup DisposeArgs \cup EscapeArgs \cup DetectArgs \cup PathArgs \cup RaceArgs
            \cup ChoiceArgs

\* the fields of the controller as constructed
NewController ==
    [panel |-> FALSE, html |-> NoHtml, handlers |-> 0, ws |-> 0,
     socks |-> [i \in 1..MaxSockets |-> DeadSocket], logBuffer |-> <<>>,
     runtimeConfig |-> NoConfig, isRuntimeLogs |-> FALSE]

\* the 'open' event of the socket of S
Opened(S, isRuntime) == OnOpen([S EXCEPT !.socks[S.ws].st = "open"], isRuntime)

\* showWithWebSocket on S, as the action ShowWithWebSocket does it
DeploymentView(S) ==
    ConnectWebSocket(
        UpdateContent(
            [CreateOrRevealPanel(
                 [S EXCEPT !.isRuntimeLogs = FALSE, !.runtimeConfig = NoConfig])
                EXCEPT !.logBuffer = <<>>],
            ConnectingText),
        Deployment, 0, FALSE)

\* showRuntimeLogs on S with containers c1 and c2, as ShowRuntimeLogsResolved
\* does it
RuntimeView(S) ==
    ConnectToRuntimeLogs(
        SetupMessageHandler(
            CreateOrRevealPanel(
                [S EXCEPT
                    !.runtimeConfig =
                        [defined |-> TRUE, app |-> App,
                         containers |-> <<"c1", "c2">>,
                         selectedContainerId |-> "c1", tail |-> DefaultTail],
                    !.isRuntimeLogs = TRUE])))

\* a session that has opened
OpenSession(isRuntime) ==
    IF isRuntime THEN Opened(RuntimeView(NewController), TRUE)
    ELSE Opened(DeploymentView(NewController), FALSE)

\* the 'message' events of text cut at cuts, after index from
RECURSIVE Deliver(_, _, _, _, _)
Deliver(S, isRuntime, text, cuts, from) ==
    IF Len(cuts) = 0 \/ from > cuts[1]
    THEN OnMessage(S, isRuntime, SubSeq(text, from + 1, Len(text)))
    ELSE Deliver(OnMessage(S, isRuntime, SubSeq(text, from + 1, cuts[1])),
                 isRuntime, text, Tail(cuts), cuts[1])

\* one listener's handling of an intent
HandleIntent(S, intent) ==
    IF intent.command = "changeTail" THEN ChangeTailBy(S, intent.tail, 1)
    ELSE ChangeContainerBy(S, intent.containerId, 1)

\* the function under study returns result; the controller is not touched
Returns(result) ==
    /\ ret = Nothing
    /\ ret' = result
    /\ UNCHANGED <<panel, html, handlers, ws, socks, logBuffer, timestamp, tz,
                   runtimeConfig, isRuntimeLogs, pending, delivered, recv,
                   last, arg, settings, tasks, provider>>

ApplyClassify ==
    /\ arg.fn = "classify"
    /\ Returns([fn |-> "classify", style |-> GetLogType(JoinTexts(arg.parts))])

ApplyParse ==
    /\ arg.fn = "parse"
    /\ Returns([fn |-> "parse", parsed |-> ParseLogLine(arg.line, arg.tzMin)])

ApplyRender ==
    /\ arg.fn = "render"
    /\ Returns([fn |-> "render",
                rows |-> OnMessage(OpenSession(arg.isRuntime), arg.isRuntime,
                                   Terminated(arg.lines)).html.rows])

ApplyChunks ==
    /\ arg.fn = "chunks"
    /\ Returns([fn |-> "chunks",
                split |-> Deliver(OpenSession(arg.isRuntime), arg.isRuntime,
                                  arg.text, arg.cuts, 0).html.rows,
                whole |-> OnMessage(OpenSession(arg.isRuntime), arg.isRuntime,
                                    arg.text).html.rows])

ApplyIntent ==
    /\ arg.fn = "intent"
    /\ Returns([fn |-> "intent",
                before |-> OnMessage(OpenSession(TRUE), TRUE, <<"x", "\n">>),
                after  |-> HandleIntent(
                               OnMessage(OpenSession(TRUE), TRUE, <<"x", "\n">>), arg)])

ApplySpacing ==
    /\ arg.fn = "spacing"
    /\ Returns([fn |-> "spacing",
                rows |-> OnMessage(OpenSession(arg.isRuntime), arg.isRuntime,
                                   JoinLines(arg.lines)).html.rows])

\* a session that is connecting, or open with a line received
SessionAt(isRuntime, opened) ==
    IF opened THEN OnMessage(OpenSession(isRuntime), isRuntime, <<"x", "\n">>)
    ELSE IF isRuntime THEN RuntimeView(NewController)
    ELSE DeploymentView(NewController)

\* showWithWebSocket or showRuntimeLogs on S, or neither
Reopened(S, again) ==
    IF again = "deployment" THEN DeploymentView(S)
    ELSE IF again = "runtime" THEN RuntimeView(S)
    ELSE S

\* the library can emit event for sock
Emits(sock, event) ==
    IF event = "message" THEN CanDeliver(sock)
    ELSE IF event = "error" THEN sock.st \in {"connecting", "aborting"}
    ELSE sock.st \in {"open", "closing", "failing", "errored"}

\* the handler of event of socket i, as WsMessage, WsHandshakeError and
\* WsClose run it
Handle(S, i, event) ==
    IF event = "message" THEN OnMessage(S, S.socks[i].isRuntime, <<"x">>)
    ELSE IF event = "error"
    THEN OnError([S EXCEPT !.socks[i].st = "failing"], S.socks[i].isRuntime,
                 AbortReason)
    ELSE OnClose([S EXCEPT !.socks[i] = DeadSocket], S.socks[i].isRuntime)

\* the panel of S closed, opened again, and the event of the old connection
Disposed(S, event, again) ==
    [fn      |-> "dispose",
     sock    |-> S.ws,
     closed  |-> OnDidDispose(S),
     later   |-> Reopened(OnDidDispose(S), again),
     emitted |-> Emits(OnDidDispose(S).socks[S.ws], event),
     after   |-> Handle(Reopened(OnDidDispose(S), again), S.ws, event)]

ApplyDispose ==
    /\ arg.fn = "dispose"
    /\ Returns(Disposed(SessionAt(arg.isRuntime, arg.opened), arg.event,
                        arg.again))

\* the buffer rendered by a session, rendered again by the 'message' event of
\* an empty chunk, and rendered by a session of the other kind
ApplyRerender ==
    /\ arg.fn = "buffer"
    /\ Returns([fn |-> "buffer",
                first  |-> OnMessage(OpenSession(arg.isRuntime), arg.isRuntime,
                                     JoinLines(arg.lines)),
                second |-> OnMessage(
                               OnMessage(OpenSession(arg.isRuntime),
                                         arg.isRuntime, JoinLines(arg.lines)),
                               arg.isRuntime, <<>>),
                other  |-> OnMessage(OpenSession(~arg.isRuntime),
                                     ~arg.isRuntime, JoinLines(arg.lines))])

ApplyEscape ==
    /\ arg.fn = "escape"
    /\ Returns([fn |-> "escape",
                escaped |-> EscapeHtml(arg.text),
                shown   |-> AnsiToHtml(EscapeHtml(arg.text))])

ApplyInitialize ==
    /\ arg.fn = "initialize"
    /\ Returns(initialize(arg.remote, arg.server, arg.projects))

\* one line rendered by formatLogLine and by the callback of updateContent
ApplyPaths ==
    /\ arg.fn = "paths"
    /\ Returns([fn |-> "paths",
                parsed  |-> ParseLogLine(arg.line, arg.tzMin),
                runtime |-> FormatLogLine(arg.line, arg.showTs, arg.tzMin),
                content |-> FormatContentLine(arg.line, arg.showTs, arg.tzMin)])

\* showRuntimeLogs of app from its await on, as ShowRuntimeLogsResolved does it
ShowRuntimeLogsOf(S, app, containers) ==
    IF Len(containers) = 0 THEN ShowEmptyState(S, app)
    ELSE ConnectToRuntimeLogs(
             SetupMessageHandler(
                 CreateOrRevealPanel(
                     [S EXCEPT
                         !.runtimeConfig =
                             [defined |-> TRUE, app |-> app,
                              containers |-> containers,
                              selectedContainerId |-> containers[1],
                              tail |-> DefaultTail],
                         !.isRuntimeLogs = TRUE])))

\* the refresh case of one listener from its await on, as RefreshResolved
\* does it
RefreshOf(S, containers) ==
    IF ~S.runtimeConfig.defined THEN S
    ELSE IF Len(containers) = 0 THEN ShowEmptyState(S, S.runtimeConfig.app)
    ELSE ConnectToRuntimeLogs(
             [S EXCEPT !.runtimeConfig.containers = containers,
                       !.runtimeConfig.selectedContainerId = containers[1]])

\* S with room for one more connection than the sockets it has had
Roomy(S) ==
    [S EXCEPT !.socks = [i \in 1..(Len(@) + 1) |->
                            IF i <= Len(@) THEN @[i] ELSE DeadSocket]]

\* the empty state of App after it had containers: refresh is offered and
\* runtimeConfig is defined
EmptyAfterRuntime ==
    ShowRuntimeLogsOf(Roomy(RuntimeView(NewController)), App, <<>>)

\* the part of request that runs when its listing completes (showWithWebSocket
\* awaits nothing: all of it)
Completes(S, request) ==
    IF request.kind = "showRuntimeLogs"
    THEN ShowRuntimeLogsOf(S, request.app, request.containers)
    ELSE IF request.kind = "refresh" THEN RefreshOf(S, request.containers)
    ELSE DeploymentView(S)

\* first and second issued in that order on S
Raced(S, first, second, inOrder) ==
    IF inOrder THEN Completes(Completes(S, first), second)
    ELSE Completes(Completes(S, second), first)

ApplyRace ==
    /\ arg.fn = "race"
    /\ Returns([fn |-> "race",
                final |-> Raced(IF arg.first.kind = "refresh" THEN EmptyAfterRuntime
                                ELSE NewController,
                                arg.first, arg.second, arg.inOrder)])

ApplyChoice ==
    /\ arg.fn = "choice"
    /\ Returns([fn |-> "choice",
                after |-> ChangeContainerBy(
                              ShowRuntimeLogsOf(Roomy(RuntimeView(NewController)),
                                                "app2", arg.listing),
                              arg.containerId, 1)])

InitFn ==
    /\ Constructed
    /\ arg \in Args
    /\ ret = Nothing

NextFn ==
    \/ ApplyClassify
    \/ ApplyParse
    \/ ApplyRender
    \/ ApplyChunks
    \/ ApplyIntent
    \/ ApplySpacing
    \/ ApplyRerender
    \/ ApplyDispose
    \/ ApplyEscape
    \/ ApplyInitialize
    \/ ApplyPaths
    \/ ApplyRace
    \/ ApplyChoice

SpecFn == InitFn /\ [][NextFn]_vars

(***************************************************************************)
(* ConfigService, the server commands of extension.ts, and the calls of   *)
(* DeploymentsProvider.initialize they end with.  A command is a chain of *)
(* awaits: every step below runs from one await to the next.              *)
(***************************************************************************)
\* commands in flight at one time
MaxCalls == 2

\* the ids crypto.randomUUID() gives to servers
ServerIds == {"s1", "s2"}

\* a task: the command, the await it is suspended at, and its locals
Task(op, pc, id, servers, isFirstServer, newActive, server) ==
    [op |-> op, pc |-> pc, id |-> id, servers |-> servers,
     isFirstServer |-> isFirstServer, newActive |-> newActive, server |-> server]

Listed(servers, id) == \E k \in 1..Len(servers) : servers[k] = id

\* getServers().filter(s => s.id !== serverId)
Without(servers, serverId) == SelectSeq(servers, LAMBDA s : s # serverId)

\* getActiveServer: the id of the server found, NoId for undefined
getActiveServer(cfg) ==
    IF cfg.activeServerId = NoId THEN NoId
    ELSE IF Listed(cfg.servers, cfg.activeServerId) THEN cfg.activeServerId
    ELSE NoId

\* everything but settings, tasks and provider
controller == <<panel, html, handlers, ws, socks, logBuffer, timestamp, tz,
                runtimeConfig, isRuntimeLogs, pending, delivered, recv, last,
                arg, ret>>

\* t moves on to pc with its locals changed to u
Continues(t, u) == tasks' = (tasks \ {t}) \cup {u}

Finishes(t) == tasks' = tasks \ {t}

\* dokploy.addServer with a new name: promptAddServer calls addServer, which
\* reads the list, pushes the server and awaits updateServers
AddServerCalled(id) ==
    /\ Cardinality(tasks) < MaxCalls
    /\ ~Listed(settings.servers, id)
    /\ \A t \in tasks : ~(t.op = "addServer" /\ t.id = id)
    /\ tasks' = tasks \cup
           {Task("addServer", "updateServers", id, Append(settings.servers, id),
                 settings.servers = <<>>, NoId, NoId)}
    /\ UNCHANGED <<settings, provider, controller>>

\* dokploy.addServer with the name of a listed server: promptAddServer calls
\* updateServer, which reads the list, replaces the entry and awaits
\* updateServers
UpdateServerCalled(id) ==
    /\ Cardinality(tasks) < MaxCalls
    /\ Listed(settings.servers, id)
    /\ tasks' = tasks \cup
           {Task("updateServer", "updateServers", id, settings.servers,
                 FALSE, NoId, NoId)}
    /\ UNCHANGED <<settings, provider, controller>>

\* dokploy.deleteServer confirmed for a listed server: removeServer filters
\* the list and awaits updateServers
RemoveServerCalled(id) ==
    /\ Cardinality(tasks) < MaxCalls
    /\ Listed(settings.servers, id)
    /\ tasks' = tasks \cup
           {Task("removeServer", "updateServers", id,
                 Without(settings.servers, id), FALSE, NoId, NoId)}
    /\ UNCHANGED <<settings, provider, controller>>

\* dokploy.setActiveServer for a listed server: awaits setActiveServerId
SetActiveServerCalled(id) ==
    /\ Cardinality(tasks) < MaxCalls
    /\ Listed(settings.servers, id)
    /\ tasks' = tasks \cup
           {Task("setActiveServer", "setActiveServerId", id, <<>>, FALSE, id, NoId)}
    /\ UNCHANGED <<settings, provider, controller>>

\* await updateServers(servers) returns: the list the task holds is the
\* setting; the task awaits the secret storage
UpdateServersDone(t) ==
    /\ t.pc = "updateServers"
    /\ settings' = [settings EXCEPT !.servers = t.servers]
    /\ Continues(t, [t EXCEPT !.pc = "secrets"])
    /\ UNCHANGED <<provider, controller>>

\* await secrets.store / secrets.delete returns
SecretsDone(t) ==
    /\ t.pc = "secrets"
    /\ Continues(t,
          IF t.op = "addServer" /\ t.isFirstServer
          THEN [t EXCEPT !.pc = "setActiveServerId", !.newActive = t.id]
          ELSE IF t.op = "removeServer" /\ settings.activeServerId = t.id
          THEN [t EXCEPT !.pc = "setActiveServerId",
                         !.newActive = IF Len(t.servers) > 0 THEN t.servers[1]
                                       ELSE NoId]
          ELSE [t EXCEPT !.pc = "initialize"])
    /\ UNCHANGED <<settings, provider, controller>>

\* await setActiveServerId(serverId) returns; the command goes on to
\* deploymentsProvider.initialize()
SetActiveServerIdDone(t) ==
    /\ t.pc = "setActiveServerId"
    /\ settings' = [settings EXCEPT !.activeServerId = t.newActive]
    /\ Continues(t, [t EXCEPT !.pc = "initialize"])
    /\ UNCHANGED <<provider, controller>>

\* initialize up to await getRepositoryInfo()
InitializeCalled(t) ==
    /\ t.pc = "initialize"
    /\ provider' = [client |-> NoId, matchedEnvironments |-> <<>>]
    /\ Continues(t, [t EXCEPT !.pc = "getRepositoryInfo"])
    /\ UNCHANGED <<settings, controller>>

\* initialize from getRepositoryInfo to await getApiKey(server.id); without
\* an active server it returns
RepositoryInfoDone(t) ==
    /\ t.pc = "getRepositoryInfo"
    /\ IF getActiveServer(settings) = NoId
       THEN Finishes(t)
       ELSE Continues(t, [t EXCEPT !.pc = "getApiKey",
                                   !.server = getActiveServer(settings)])
    /\ UNCHANGED <<settings, provider, controller>>

\* initialize from getApiKey to await client.getProjects(); without a key it
\* returns
ApiKeyDone(t, apiKey) ==
    /\ t.pc = "getApiKey"
    /\ IF apiKey THEN Continues(t, [t EXCEPT !.pc = "getProjects"])
       ELSE Finishes(t)
    /\ UNCHANGED <<settings, provider, controller>>

\* initialize from getProjects on: matched tells whether an application of
\* the server matches; fetched is FALSE when getProjects rejects
ProjectsDone(t, fetched, matched) ==
    /\ t.pc = "getProjects"
    /\ provider' = IF fetched /\ matched
                   THEN [client |-> t.server,
                         matchedEnvironments |-> <<[server |-> t.server]>>]
                   ELSE provider
    /\ Finishes(t)
    /\ UNCHANGED <<settings, controller>>

NextCfg ==
    \/ \E id \in ServerIds : AddServerCalled(id)
    \/ \E id \in ServerIds : UpdateServerCalled(id)
    \/ \E id \in ServerIds : RemoveServerCalled(id)
    \/ \E id \in ServerIds : SetActiveServerCalled(id)
    \/ \E t \in tasks : UpdateServersDone(t)
    \/ \E t \in tasks : SecretsDone(t)
    \/ \E t \in tasks : SetActiveServerIdDone(t)
    \/ \E t \in tasks : InitializeCalled(t)
    \/ \E t \in tasks : RepositoryInfoDone(t)
    \/ \E t \in tasks : \E apiKey \in BOOLEAN : ApiKeyDone(t, apiKey)
    \/ \E t \in tasks : \E fetched, matched \in BOOLEAN : ProjectsDone(t, fetched, matched)

SpecCfg == Init /\ [][NextCfg]_vars

(***************************************************************************)
(* Properties.                                                             *)
(***************************************************************************)
IsPrefix(s, t) == Len(s) <= Len(t) /\ SubSeq(t, 1, Len(s)) = s

\* the number of line breaks of a text
CountBreaks(s) == Cardinality({k \in 1..Len(s) : s[k] = "\n"})

\* this.ws is a connection that is being established or is established
SessionLive == ws # 0 /\ socks[ws].st \in {"connecting", "open"}

LiveSockets == {i \in 1..Len(socks) : socks[i].st # "closed"}

\* the characters of the message of a rendered row
RowChars(row) ==
    IF row.cls = "log-empty" THEN {}
    ELSE {row.message[k] : k \in 1..Len(row.message)}

\* the letters of the sources other than src
ForeignChars(src) ==
    {SourceChar(s) : s \in (ContainerIds \cup {Deployment}) \ {src}}

\* the row of a line of the controller's own, on either rendering path
IsRowOf(row, text, badge) ==
    row.cls # "log-empty" /\ row.message = text /\ row.badge = badge

\* the step creates a WebSocket
NewConnection ==
    \E i \in 1..Len(socks) : socks[i].st = "closed" /\ socks'[i].st # "closed"

\* C1: a 'message' event of a connection other than this.ws, delivered while
\* this.ws is a live session, changes neither logBuffer nor the display
C1_StaleChunkDropped ==
    [][(last'.op = "message" /\ last'.sock # ws /\ SessionLive)
          => (logBuffer' = logBuffer /\ html' = html)]_vars

\* C2: while the session of this.ws is open, logBuffer is the concatenation,
\* in arrival order, of exactly the chunks that connection has delivered
C2_BufferIsSessionChunks ==
    (ws # 0 /\ socks[ws].st = "open") => logBuffer = recv

\* C3: a step that opens a connection leaves logBuffer empty, and the runtime
\* page of a live session shows no letter of another source (what "no line of
\* the prior container is rendered for the new session" says of the letters)
C3_NoLineOfPriorSource ==
    /\ [][NewConnection => logBuffer' = <<>>]_vars
    /\ [](SessionLive /\ html.view = "runtime"
            => \A k \in 1..Len(html.rows) :
                   RowChars(html.rows[k]) \cap ForeignChars(socks[ws].src) = {})

\* C4: at most one WebSocket is connecting, open or still to emit an event
C4_AtMostOneLiveSocket == Cardinality(LiveSockets) <= 1

\* C5: a 'close' event leaves logBuffer as it is; with a non-empty logBuffer
\* the last row displayed is the marker "--- Log stream ended ---", with an
\* empty one the display is unchanged (the display exists while the panel does)
C5_CloseAppendsMarker ==
    [][last'.op = "close"
          => /\ logBuffer' = logBuffer
             /\ IF logBuffer # <<>> /\ panel
                THEN /\ html'.rows # <<>>
                     /\ IsRowOf(html'.rows[Len(html'.rows)], StreamEndedText, "debug")
                ELSE html' = html]_vars

\* a 'close' event has put the marker under a non-empty buffer
C5_Witness ==
    /\ last.op = "close"
    /\ logBuffer # <<>>
    /\ panel
    /\ IsRowOf(html.rows[Len(html.rows)], StreamEndedText, "debug")

\* C6: an 'error' event leaves logBuffer as it is and displays the line
\* "Connection error: <reason>", a blank row, and then the rendering of
\* everything buffered
C6_ErrorLineAhead ==
    [][(last'.op = "error" /\ panel)
          => /\ logBuffer' = logBuffer
             /\ Len(html'.rows) >= 3
             /\ \E reason \in {TransportReason, AbortReason} :
                    IsRowOf(html'.rows[1], ConnectionErrorPrefix \o reason, "error")
             /\ html'.rows[2] = EmptyRow
             /\ SubSeq(html'.rows, 3, Len(html'.rows)) =
                    IF html'.view = "runtime"
                    THEN RenderRuntimeLines(logBuffer, timestamp, tz)
                    ELSE RenderContentLines(logBuffer, timestamp, tz)]_vars

\* an 'error' event has put its line ahead of a non-empty buffer
C6_Witness ==
    /\ last.op = "error"
    /\ logBuffer # <<>>
    /\ panel
    /\ IsRowOf(html.rows[1], ConnectionErrorPrefix \o TransportReason, "error")
    /\ Len(html.rows) > 3

C8_NoAutomaticRetry ==
    [][NewConnection
          => last'.op \in {"showRuntimeLogsResolved", "showWithWebSocket",
                           "changeContainer", "changeTail", "refreshResolved"}]_vars

\* a runtime session has failed and closed, and no connection exists
C8_Witness ==
    /\ last.op = "close"
    /\ LiveSockets = {}
    /\ runtimeConfig.defined
    /\ panel
    /\ html.view = "runtime"
    /\ IsRowOf(html.rows[1], ConnectionErrorPrefix \o TransportReason, "error")

\* C9: of two chunks one session receives one after the other, the second
\* leaves every row displayed after the first where it was and as it was
\* (stated for the rows that are not blank)
C9_RenderingGrowsAppendOnly ==
    [][(last.op = "message" /\ last.sock = ws
        /\ last'.op = "message" /\ last'.sock = ws /\ panel)
          => \A k \in 1..Len(html.rows) :
                 html.rows[k] # EmptyRow
                     => k <= Len(html'.rows) /\ html'.rows[k] = html.rows[k]]_vars

\* C10: after a chunk is processed, the rows displayed are those of the
\* complete lines of logBuffer, one per line break: the text after the last
\* break has no row
C10_IncompleteLineNotRendered ==
    (last.op = "message" /\ panel /\ logBuffer # <<>>
        /\ logBuffer[Len(logBuffer)] # "\n")
        => Len(html.rows) = CountBreaks(logBuffer)

(***************************************************************************)
(* Properties of the functions of the pipeline, stated over SpecFn: arg is *)
(* the input and ret what the function returned.                           *)
(***************************************************************************)

\* a cut that falls inside a line of text
MidLineCut(text, cut) ==
    cut \in 1..(Len(text) - 1) /\ text[cut] # "\n" /\ text[cut + 1] # "\n"

\* C11: whatever the cut points of a text, the display after its last chunk
\* is the display of the text arriving as one chunk
C11_ChunkBoundaryIndependence ==
    ret.fn = "chunks" => ret.split = ret.whole

C11_Witness ==
    /\ ret.fn = "chunks"
    /\ Len(ret.whole) > 1
    /\ MidLineCut(arg.text, arg.cuts[1])
    /\ \E k \in 1..Len(arg.cuts) : arg.cuts[k] > arg.cuts[1]
                                      /\ MidLineCut(arg.text, arg.cuts[k])

\* C12: getLogType returns the severity of the first group, in the order
\* error, warning, success, info, that a part of the message matches, and
\* debug when none does
C12_ClassifierPrecedence ==
    ret.fn = "classify" => ret.style.type = FirstGroup(arg.parts)

C12_Witness ==
    /\ ret.fn = "classify"
    /\ \/ arg.parts = <<MixedExample>>
       \/ /\ Len(arg.parts) = 2
          /\ arg.parts[1].group = "success"
          /\ arg.parts[2].group = "warning"
    /\ ret.style.type \in {"error", "warning"}

\* C13: a line whose leading timestamp has the syntax of one but names no
\* instant is returned whole as the message, with no timestamp
C13_InvalidTimestampKeepsLine ==
    (ret.fn = "parse" /\ arg.stamped /\ ~IsCalendarDate(arg.date))
        => ret.parsed = [timestamp |-> NoDate, message |-> arg.line]

\* C14: for a line made of a valid timestamp, whitespace and a message M the
\* message is trim(M) and the timestamp is the instant the text names in UTC,
\* whatever the zone suffix and the host's time zone
C14_TimestampIsUtcInstant ==
    (ret.fn = "parse" /\ arg.stamped /\ IsCalendarDate(arg.date))
        => /\ ret.parsed.message = Trim(arg.msg)
           /\ ret.parsed.timestamp = UtcInstant(arg.date, arg.ms)

\* C15: a line with no leading timestamp is returned unchanged as the
\* message, with no timestamp
C15_PlainLineUnchanged ==
    (ret.fn = "parse" /\ ~arg.stamped)
        => ret.parsed = [timestamp |-> NoDate, message |-> arg.line]

C15_Witness ==
    /\ ret.fn = "parse"
    /\ ~arg.stamped
    /\ arg.line # Trim(arg.line)
    /\ ret.parsed.message = arg.line

\* the severity and the message the examples give for a sample line
SampleRecord(line) ==
    IF line = <<"E", "R", "R", "O", "R", ":", " ", "c", "o", "n", "n", "e", "c", "t", "i", "o", "n", " ", "r", "e", "f", "u", "s", "e", "d">>
    THEN [badge |-> "error", message |-> line]
    ELSE IF line = <<"I", "N", "F", "O", ":", " ", "r", "e", "t", "r", "y", "i", "n", "g">>
    THEN [badge |-> "info", message |-> line]
    ELSE [badge |-> "success", message |-> <<"L", "i", "s", "t", "e", "n", "i", "n", "g", " ", "o", "n", " ", "p", "o", "r", "t", " ", "3", "0", "0", "0">>]

\* row k of rows is the record of line
IsRecordOf(rows, k, line) ==
    /\ k <= Len(rows)
    /\ rows[k].cls # "log-empty"
    /\ rows[k].badge = SampleRecord(line).badge
    /\ rows[k].message = SampleRecord(line).message

\* C16: a chunk of n lines, each ended by a line break, is displayed as
\* exactly n rows, in order, with the severities and messages of the lines
C16_OneRowPerCompleteLine ==
    ret.fn = "render"
        => /\ Len(ret.rows) = Len(arg.lines)
           /\ \A k \in 1..Len(arg.lines) : IsRecordOf(ret.rows, k, arg.lines[k])

\* an intent whose payload is no tail depth, or no selectable container
InvalidIntent(intent, config) ==
    IF intent.command = "changeTail" THEN intent.tail <= 0
    ELSE \A k \in 1..Len(config.containers) :
             config.containers[k] # intent.containerId

\* C19: a changeTail or changeContainer intent with an invalid payload leaves
\* the configuration, the connection and logBuffer as they were
C19_InvalidIntentRejected ==
    (ret.fn = "intent" /\ InvalidIntent(arg, ret.before.runtimeConfig))
        => /\ ret.after.runtimeConfig = ret.before.runtimeConfig
           /\ ret.after.ws = ret.before.ws
           /\ ret.after.socks = ret.before.socks
           /\ ret.after.logBuffer = ret.before.logBuffer

(***************************************************************************)
(* Properties of the empty state, stated over Spec.                        *)
(***************************************************************************)

\* C17: when getContainersByAppLabel resolves to no container the empty
\* state is displayed and no session is left, and no event of a connection
\* replaces the empty state
C17_EmptyStateHasNoSession ==
    [][/\ (/\ last'.op \in {"showRuntimeLogsResolved", "refreshResolved"}
           /\ html'.view = "empty")
          => ~SessionLive'
       /\ (/\ html.view = "empty"
           /\ last'.op \in {"open", "message", "error", "close"})
          => html' = html]_vars

\* C18: in the empty state a refresh intent calls getContainersByAppLabel,
\* and a resolution that leaves the empty state opens a connection
C18_RefreshResolvesAgain ==
    [][/\ last'.op = "refresh" => pending'.refresh > pending.refresh
       /\ (last'.op = "refreshResolved" /\ html'.view # "empty")
          => NewConnection]_vars

\* C20: a rejected getContainersByAppLabel ends in the empty state
C20_RejectionShowsEmptyState ==
    [][last'.op \in {"showRuntimeLogsRejected", "refreshRejected"}
          => html'.view = "empty"]_vars

(***************************************************************************)
(* Properties of the session configuration and of the panel, over Spec.    *)
(***************************************************************************)

\* the container and the tail this.ws was opened with are those of
\* runtimeConfig
MatchesConfig ==
    (SessionLive /\ socks[ws].isRuntime)
        => /\ runtimeConfig.defined
           /\ socks[ws].src = runtimeConfig.selectedContainerId
           /\ socks[ws].tail = runtimeConfig.tail

\* C21: a live runtime connection was opened with the selectedContainerId and
\* the tail runtimeConfig holds now, and runtimeConfig takes a new value only
\* in showRuntimeLogs and in the changeContainer, changeTail and refresh
\* intents
C21_ConfigChangeReplacesSession ==
    [][/\ MatchesConfig'
       /\ (runtimeConfig' # runtimeConfig /\ runtimeConfig'.defined)
          => last'.op \in {"showRuntimeLogsResolved", "changeContainer",
                           "changeTail", "refreshResolved"}]_vars

C21_Witness ==
    /\ last.op = "changeTail"
    /\ SessionLive
    /\ socks[ws].isRuntime
    /\ socks[ws].tail = 500
    /\ \E i \in 1..Len(socks) : i # ws /\ socks[i].tail = DefaultTail
                                   /\ socks[i].st # "closed"

(***************************************************************************)
(* Further properties of the functions of the pipeline, over SpecFn.       *)
(***************************************************************************)

\* C23: a buffer of n lines is displayed as n rows, and row k is the blank
\* row, which has no badge, border or message, exactly when line k is empty
\* or holds only whitespace
C23_BlankLinesKeepTheirPlace ==
    ret.fn = "spacing"
        => /\ Len(ret.rows) = Len(arg.lines)
           /\ \A k \in 1..Len(arg.lines) :
                  IF Trim(arg.lines[k]) = <<>>
                  THEN DOMAIN ret.rows[k] = {"cls"}
                           /\ ret.rows[k].cls = "log-empty"
                  ELSE ret.rows[k].cls # "log-empty"
                           /\ ret.rows[k].message = arg.lines[k]

C23_Witness ==
    /\ ret.fn = "spacing"
    /\ Len(arg.lines) = 3
    /\ arg.lines[1] = <<>>
    /\ Trim(arg.lines[2]) # <<>>
    /\ arg.lines[3] # <<>> /\ Trim(arg.lines[3]) = <<>>
    /\ Len(ret.rows) = 3

\* rows k of rowsA and j of rowsB show the same message
SameMessage(rowsA, k, rowsB, j) ==
    /\ rowsA[k].cls # "log-empty"
    /\ rowsB[j].cls # "log-empty"
    /\ rowsA[k].message = rowsB[j].message

\* C24: rows that show the same message carry the same severity, whatever the
\* timestamps of their lines, their places in the buffer, the kind of the
\* session and the number of renderings before
C24_SeverityDependsOnMessageOnly ==
    ret.fn = "buffer"
        => \A k, j \in 1..Len(arg.lines) :
               /\ SameMessage(ret.first.html.rows, k, ret.first.html.rows, j)
                  => ret.first.html.rows[k].badge = ret.first.html.rows[j].badge
               /\ SameMessage(ret.first.html.rows, k, ret.second.html.rows, j)
                  => ret.first.html.rows[k].badge = ret.second.html.rows[j].badge
               /\ SameMessage(ret.first.html.rows, k, ret.other.html.rows, j)
                  => ret.first.html.rows[k].badge = ret.other.html.rows[j].badge

C24_Witness ==
    /\ ret.fn = "buffer"
    /\ Len(arg.lines) = 3
    /\ arg.lines[1] = <<"2", "0", "2", "3", "-", "1", "2", "-", "3", "1", " ", "2", "3", ":", "5", "9", ":", "5", "9", " ", " ", "a", "t", " ", "f", " ", "(", "a", ":", "1", ":", "2", ")">>
    /\ arg.lines[3] = <<"a", "t", " ", "f", " ", "(", "a", ":", "1", ":", "2", ")">>
    /\ ret.first.html.rows[1].badge = "error"
    /\ SameMessage(ret.first.html.rows, 1, ret.other.html.rows, 3)

\* C25: rendering a buffer again gives the rows of the first rendering and
\* leaves logBuffer as it was
C25_RerenderingIsIdempotent ==
    ret.fn = "buffer"
        => /\ ret.second.html = ret.first.html
           /\ ret.second.logBuffer = ret.first.logBuffer
           /\ ret.first.logBuffer = JoinLines(arg.lines)

C25_Witness ==
    /\ ret.fn = "buffer"
    /\ Len(arg.lines) = 3
    /\ Len(ret.second.html.rows) = 3
    /\ ret.second.html.rows[3].badge = "success"
    /\ arg.isRuntime

\* C22: closing the panel calls close() on this.ws, forgets it and clears
\* runtimeConfig, and no later event of that connection changes the display,
\* not even the display of a panel created afterwards
C22_PanelCloseEndsSession ==
    ret.fn = "dispose"
        => /\ ret.closed.ws = 0
           /\ ret.closed.runtimeConfig = NoConfig
           /\ ret.closed.socks[ret.sock].st \notin {"connecting", "open"}
           /\ ret.emitted => ret.after.html = ret.later.html

(***************************************************************************)
(* Further properties of the controller, over Spec.                        *)
(***************************************************************************)

\* C26: a call of getContainersByAppLabel is started only by showRuntimeLogs
\* and by the refresh intent; the other intents, the events of a connection,
\* the closing of the panel and the auto-refresh timer start none
C26_ListingOnlyOnOpenAndRefresh ==
    [][/\ pending'.show > pending.show => last'.op = "showRuntimeLogs"
       /\ pending'.refresh > pending.refresh => last'.op = "refresh"
       /\ last'.op \in {"changeContainer", "changeTail", "open", "message",
                        "error", "close", "panelClosed", "autoRefresh"}
          => pending' = pending]_vars

C26_Witness ==
    /\ last.op = "autoRefresh"
    /\ html.view = "empty"
    /\ runtimeConfig.defined
    /\ pending.refresh = 0

(***************************************************************************)
(* Properties of escapeHtml, over SpecFn.                                  *)
(***************************************************************************)

\* the entity of a character, the character itself when it has none
Entity(c) ==
    IF c = "&" THEN <<"&", "a", "m", "p", ";">>
    ELSE IF c = "<" THEN <<"&", "l", "t", ";">>
    ELSE IF c = ">" THEN <<"&", "g", "t", ";">>
    ELSE IF c = "\"" THEN <<"&", "q", "u", "o", "t", ";">>
    ELSE IF c = "'" THEN <<"&", "#", "0", "3", "9", ";">>
    ELSE <<c>>

\* every character of text replaced by its entity, once
RECURSIVE Entities(_)
Entities(text) ==
    IF Len(text) = 0 THEN <<>>
    ELSE Entity(Head(text)) \o Entities(Tail(text))

\* C27: the text handed to the display is the message with each ampersand,
\* angle bracket and quote replaced by its entity, and no character of an
\* entity replaced again
C27_EscapesEachCharacterOnce ==
    ret.fn = "escape"
        => /\ ret.escaped = Entities(arg.text)
           /\ ret.shown = Entities(arg.text)

C27_Witness ==
    /\ ret.fn = "escape"
    /\ arg.text = <<"&", "l", "t", ";", "b", "&", "g", "t", ";">>
    /\ ret.shown = <<"&", "a", "m", "p", ";", "l", "t", ";", "b", "&", "a", "m", "p", ";", "g", "t", ";">>

(***************************************************************************)
(* Properties of the auto-detection, over SpecFn.                          *)
(***************************************************************************)

\* the applications the provider holds after initialize, in order
RECURSIVE MatchedApplications(_)
MatchedApplications(matched) ==
    IF Len(matched) = 0 THEN <<>>
    ELSE Head(matched).applications \o MatchedApplications(Tail(matched))

\* the applications of the server, in order
RECURSIVE ServerApplications(_)
ServerApplications(envs) ==
    IF Len(envs) = 0 THEN <<>>
    ELSE Head(envs).applications \o ServerApplications(Tail(envs))

\* the remote is written in one of the two forms the extension reads
Detectable(remote) == remote.kind = "url" /\ remote.form \in {"scp", "https"}

\* owner and repository of app are those of the remote, without regard to
\* the case of the letters and to one trailing ".git"
SameRepository(app) ==
    /\ app.owner # Undefined
    /\ app.repository # Undefined
    /\ ToLowerCase(app.owner) = ToLowerCase(Origin.owner)
    /\ ToLowerCase(StripDotGit(app.repository)) = ToLowerCase(Origin.repo)

\* C28: after initialize has completed successfully the matched applications
\* are exactly the server's applications whose owner and repository are those
\* of the workspace's remote, compared without case and without a trailing
\* ".git"; an application without owner or repository never matches, and
\* without a detectable remote nothing matches
C28_MatchesExactlyTheRemote ==
    (ret.fn = "initialize" /\ ret.completed)
        => /\ Detectable(arg.remote)
                => MatchedApplications(ret.matchedEnvironments)
                    = SelectSeq(ServerApplications(Environments(arg.projects)),
                                SameRepository)
           /\ ~Detectable(arg.remote)
                => MatchedApplications(ret.matchedEnvironments) = <<>>
           /\ \A i \in DOMAIN MatchedApplications(ret.matchedEnvironments) :
                /\ MatchedApplications(ret.matchedEnvironments)[i].owner # Undefined
                /\ MatchedApplications(ret.matchedEnvironments)[i].repository # Undefined

\* the same for every remote but the one written with a trailing slash
C28_ExceptTrailingSlash ==
    arg.fn = "initialize" /\ arg.remote.stdout # <<"h", "t", "t", "p", "s", ":", "/", "/", "h", ".", "i", "o", "/", "a", "c", "m", "e", "/", "w", "e", "b", "/", "\n">>
        => C28_MatchesExactlyTheRemote

C28_SlashSeen ==
    /\ ret.fn = "initialize" /\ ret.completed
    /\ arg.remote.stdout = <<"h", "t", "t", "p", "s", ":", "/", "/", "h", ".", "i", "o", "/", "a", "c", "m", "e", "/", "w", "e", "b", "/", "\n">>
    /\ ret.repoInfo.defined /\ ret.repoInfo.repo = <<"w", "e", "b", "/">>
    /\ Len(ServerApplications(Environments(arg.projects))) = Len(AppsOfFirst) + Len(AppsOfSecond)
    /\ ret.matchedEnvironments = <<>>

C28_NormalSeen ==
    /\ ret.fn = "initialize" /\ ret.completed
    /\ arg.remote.stdout = <<"g", "i", "t", "@", "h", ".", "i", "o", ":", "A", "c", "m", "e", "/", "W", "e", "b", "\n">>
    /\ Len(ret.matchedEnvironments) = Len(Head(arg.projects).environments)
    /\ Len(MatchedApplications(ret.matchedEnvironments)) = Len(Head(arg.projects).environments)

(***************************************************************************)
(* Properties of the terminal events, over Spec.                           *)
(***************************************************************************)

\* the first row displayed is a "Connection error: ..." line
ErrorShown(page) ==
    /\ page.rows # <<>>
    /\ \E reason \in {TransportReason, AbortReason} :
           IsRowOf(page.rows[1], ConnectionErrorPrefix \o reason, "error")

\* the last row displayed is the marker "--- Log stream ended ---"
EndShown(page) ==
    /\ page.rows # <<>>
    /\ IsRowOf(page.rows[Len(page.rows)], StreamEndedText, "debug")

\* the step runs the 'error' or 'close' handler of a connection that was
\* replaced: this.ws is another one
StaleTerminal ==
    /\ last'.op \in {"error", "close"}
    /\ ws # 0
    /\ last'.sock # ws

\* C29: the 'error' and the 'close' of a connection that was torn down for
\* replacement put neither a "Connection error" line nor the marker
\* "--- Log stream ended ---" into the display of the session that replaced it
C29_StaleTerminalEventsSuppressed ==
    [][(StaleTerminal /\ html' # html)
          => ~ErrorShown(html') /\ ~EndShown(html')]_vars

\* the two halves of C29
C29_StaleErrorSuppressed ==
    [][(StaleTerminal /\ last'.op = "error" /\ html' # html)
          => ~ErrorShown(html')]_vars

C29_StaleCloseSuppressed ==
    [][(StaleTerminal /\ last'.op = "close" /\ html' # html)
          => ~EndShown(html')]_vars

\* C30: the 'close' that follows an 'error' on the connection of the session
\* leaves the "Connection error" line in the display
C30_ErrorLineStays ==
    [][(/\ last'.op = "close"
        /\ last'.sock = ws
        /\ socks[ws].st \in {"errored", "failing"}
        /\ panel
        /\ ErrorShown(html))
          => ErrorShown(html')]_vars

\* the same while nothing is buffered
C30_ErrorLineStaysWhenEmpty ==
    [][(/\ last'.op = "close"
        /\ last'.sock = ws
        /\ socks[ws].st \in {"errored", "failing"}
        /\ panel
        /\ logBuffer = <<>>
        /\ ErrorShown(html))
          => html' = html]_vars

\* an error of the session's connection, with nothing buffered, was followed
\* by its 'close'
C30_EmptySeen ==
    /\ last.op = "close"
    /\ last.sock = ws
    /\ panel
    /\ logBuffer = <<>>
    /\ ErrorShown(html)

(***************************************************************************)
(* Properties of what a session displays, over Spec.                       *)
(***************************************************************************)

\* the rows of the page are the rendering of text on the path of its view
RendersAll(page, text) ==
    /\ page.view \in {"runtime", "logs"}
    /\ page.rows = IF page.view = "runtime"
                   THEN RenderRuntimeLines(text, timestamp, tz)
                   ELSE RenderContentLines(text, timestamp, tz)

\* C31: while the panel exists, after a 'message' event the display is the
\* rendering of the whole logBuffer, every line from the top, in place of
\* whatever was displayed before
C31_MessageRendersWholeBuffer ==
    [][(last'.op = "message" /\ panel) => RendersAll(html', logBuffer')]_vars

\* the session has received two chunks and displays both
C31_Witness ==
    /\ last.op = "message"
    /\ last.sock = ws
    /\ panel
    /\ delivered = MaxChunks
    /\ logBuffer = recv
    /\ Len(SplitLines(recv)) > 2
    /\ RendersAll(html, logBuffer)

\* row shows one of the two placeholder texts
IsPlaceholderRow(row) ==
    /\ row.cls # "log-empty"
    /\ row.message \in {ConnectingText, ConnectedText}

\* C32: an 'open' event leaves logBuffer empty and displays the placeholder
\* "Connected. Waiting for logs..."; neither placeholder text is ever part of
\* logBuffer, and once the session has received a chunk no row displayed is
\* a placeholder
C32_PlaceholderIsTransient ==
    /\ [][last'.op = "open"
            => /\ logBuffer' = <<>>
               /\ panel => /\ Len(html'.rows) = 1
                           /\ html'.rows[1].cls # "log-empty"
                           /\ html'.rows[1].message = ConnectedText]_vars
    /\ [](~Contains(logBuffer, ConnectingText) /\ ~Contains(logBuffer, ConnectedText))
    /\ []((ws # 0 /\ recv # <<>>)
            => \A k \in 1..Len(html.rows) : ~IsPlaceholderRow(html.rows[k]))

\* a connection has opened and the placeholder is displayed
C32_Witness ==
    /\ last.op = "open"
    /\ last.sock = ws
    /\ panel
    /\ logBuffer = <<>>
    /\ Len(html.rows) = 1
    /\ html.rows[1].message = ConnectedText

(***************************************************************************)
(* Properties of the two rendering paths, over SpecFn.                     *)
(***************************************************************************)

\* the row holds an element for the timestamp
HasTimestampElement(row) == row.cls # "log-empty" /\ row.timestamp.span

\* C38: updateContent and formatLogLine build the same row for every line and
\* both values of the timestamp setting, and with the setting off neither
\* row holds a timestamp element
C38_PathsRenderAlike ==
    ret.fn = "paths"
        => /\ ret.runtime = ret.content
           /\ ~arg.showTs => /\ ~HasTimestampElement(ret.runtime)
                             /\ ~HasTimestampElement(ret.content)

\* the same for the lines that hold a timestamp, and with the setting off
C38_AlikeWhenStampedOrOff ==
    (ret.fn = "paths" /\ (~arg.showTs \/ ret.parsed.timestamp # NoDate
                            \/ Trim(arg.line) = <<>>))
        => C38_PathsRenderAlike

C38_DifferenceSeen ==
    /\ ret.fn = "paths"
    /\ arg.showTs
    /\ arg.line = <<"I", "N", "F", "O", ":", " ", "r", "e", "t", "r", "y", "i", "n", "g">>
    /\ ret.content.timestamp = TimestampSpan(<<>>)
    /\ ret.runtime.timestamp = NoSpan
    /\ [ret.content EXCEPT !.timestamp = NoSpan] = ret.runtime

(***************************************************************************)
(* Properties of the intents, over Spec.                                   *)
(***************************************************************************)

\* the WebSockets the step creates
NewConnections == {i \in 1..Len(socks) : socks[i].st = "closed" /\ socks'[i].st # "closed"}

\* C33: a changeContainer or changeTail intent opens exactly one connection
\* and a refresh intent asks for one listing, however often showRuntimeLogs
\* or the empty state was shown on the panel before
C33_OneIntentOneSession ==
    [][/\ last'.op \in {"changeContainer", "changeTail"}
            => Cardinality(NewConnections) = 1
       /\ (last'.op = "refresh" /\ runtimeConfig.defined)
            => pending'.refresh = pending.refresh + 1]_vars

\* the same on a panel that was shown once
C33_OneListenerOneSession ==
    [][handlers = 1
        => /\ last'.op \in {"changeContainer", "changeTail"}
                => Cardinality(NewConnections) = 1
           /\ (last'.op = "refresh" /\ runtimeConfig.defined)
                => pending'.refresh = pending.refresh + 1]_vars

\* listeners registered on the panel never number more than one
C33_ListenersDoNotAccumulate == handlers <= 1

\* C35: a refresh whose listing completes when runtimeConfig is undefined,
\* the panel having been closed or deployment logs shown, throws nothing and
\* changes no field of the controller
C35_LateRefreshIsHarmless ==
    [][(pending'.refresh < pending.refresh /\ ~runtimeConfig.defined)
          => /\ last'.op # "refreshThrew"
             /\ UNCHANGED <<panel, html, handlers, ws, socks, logBuffer,
                            runtimeConfig, isRuntimeLogs>>]_vars

\* the fields are left alone in that case
C35_LateRefreshChangesNothing ==
    [][(pending'.refresh < pending.refresh /\ ~runtimeConfig.defined)
          => UNCHANGED <<panel, html, handlers, ws, socks, logBuffer,
                         runtimeConfig, isRuntimeLogs>>]_vars

\* the steps of an intent
IntentStep(op) == op \in {"changeContainer", "changeTail", "refresh", "refreshResolved"}

\* C37: changeTail leaves selectedContainerId and containers as they were,
\* changeContainer leaves tail and containers, refresh leaves tail, and an
\* intent that finds no runtimeConfig changes nothing
C37_FrameOfReconfiguration ==
    [][/\ last'.op = "changeTail"
            => /\ runtimeConfig'.selectedContainerId = runtimeConfig.selectedContainerId
               /\ runtimeConfig'.containers = runtimeConfig.containers
       /\ last'.op = "changeContainer"
            => /\ runtimeConfig'.tail = runtimeConfig.tail
               /\ runtimeConfig'.containers = runtimeConfig.containers
       /\ last'.op \in {"refresh", "refreshResolved"}
            => runtimeConfig'.tail = runtimeConfig.tail
       /\ (IntentStep(last'.op) /\ ~runtimeConfig.defined)
            => UNCHANGED <<panel, html, handlers, ws, socks, logBuffer,
                           runtimeConfig, isRuntimeLogs, pending>>]_vars

\* changeTail has acted on a configuration whose container was chosen
C37_Witness ==
    /\ last.op = "changeTail"
    /\ runtimeConfig.defined
    /\ runtimeConfig.selectedContainerId # runtimeConfig.containers[1]
    /\ runtimeConfig.tail # DefaultTail

(***************************************************************************)
(* Properties of the server settings and of the provider, over SpecCfg.    *)
(***************************************************************************)

\* activeServerId is undefined or the id of a listed server
ActiveServerListed ==
    settings.activeServerId = NoId \/ Listed(settings.servers, settings.activeServerId)

\* the tasks that take the step
Stepping == tasks \ tasks'

\* C39: whenever no command is in flight, activeServerId is undefined or the
\* id of a listed server; removeServer of the active server makes the first
\* server of the list active, or none when the list is empty, and addServer
\* of the first server makes it active
C39_ActiveServerStaysValid ==
    /\ [](tasks = {} => ActiveServerListed)
    /\ [][\A t \in Stepping :
            /\ (t.op = "removeServer" /\ t.pc = "setActiveServerId")
                 => settings'.activeServerId =
                        IF settings'.servers = <<>> THEN NoId
                        ELSE settings'.servers[1]
            /\ (t.op = "addServer" /\ t.pc = "setActiveServerId")
                 => settings'.activeServerId = t.id]_vars

\* the first sentence alone
C39_ValidWhenQuiet == tasks = {} => ActiveServerListed

\* adding the first server makes it active
C39_FirstServerBecomesActive ==
    [][\A t \in Stepping :
          (t.op = "addServer" /\ t.pc = "setActiveServerId")
              => settings'.activeServerId = t.id]_vars

\* the commands have ended and the active server is not listed
C39_DanglingSeen ==
    /\ tasks = {}
    /\ settings.activeServerId # NoId
    /\ ~Listed(settings.servers, settings.activeServerId)

\* C40: the provider's client is defined exactly when matchedEnvironments is
\* not empty, and when no initialize is in flight both belong to the active
\* server
C40_ProviderFollowsActiveServer ==
    /\ (provider.client # NoId) <=> (provider.matchedEnvironments # <<>>)
    /\ tasks = {}
         => /\ provider.client \in {NoId, getActiveServer(settings)}
            /\ \A k \in 1..Len(provider.matchedEnvironments) :
                   provider.matchedEnvironments[k].server = getActiveServer(settings)

\* the first half
C40_ClientIffMatched ==
    (provider.client # NoId) <=> (provider.matchedEnvironments # <<>>)

\* the commands have ended, both servers are listed, and the client is that
\* of the server that is not active
C40_StaleClientSeen ==
    /\ tasks = {}
    /\ ActiveServerListed
    /\ settings.activeServerId # NoId
    /\ provider.client # NoId
    /\ provider.client # settings.activeServerId
    /\ Listed(settings.servers, provider.client)

(***************************************************************************)
(* Properties of requests that overlap, over SpecFn.                       *)
(***************************************************************************)

\* the session and the display of S are those of request
Wins(S, request) ==
    IF request.kind = "showWithWebSocket"
    THEN /\ S.html.view = "logs"
         /\ ~S.runtimeConfig.defined
         /\ S.ws # 0 /\ S.socks[S.ws].src = Deployment
    ELSE IF Len(request.containers) = 0
    THEN S.html.view = "empty"
    ELSE /\ S.html.view = "runtime"
         /\ S.html.containers = request.containers
         /\ S.runtimeConfig.defined
         /\ S.runtimeConfig.app = request.app
         /\ S.runtimeConfig.containers = request.containers
         /\ S.ws # 0 /\ S.socks[S.ws].src = request.containers[1]

\* C34: of two requests issued one after the other, whose listings complete
\* in either order, the session and the display that remain are those of the
\* second
C34_LastRequestWins ==
    ret.fn = "race" => Wins(ret.final, arg.second)

\* the same when the listings complete in the order of the requests
C34_LastCompletedWins ==
    (ret.fn = "race" /\ arg.inOrder) => Wins(ret.final, arg.second)

\* the earlier showRuntimeLogs has replaced the deployment logs asked for later
C34_OvertakenSeen ==
    /\ ret.fn = "race"
    /\ arg.second = DeploymentRequest
    /\ arg.first.containers # <<>>
    /\ Wins(ret.final, arg.first)

\* selectedContainerId is one of the containers of the configuration
Selectable(config) ==
    config.defined
        => \E k \in 1..Len(config.containers) :
               config.containers[k] = config.selectedContainerId

\* C36: whenever a runtimeConfig exists, selectedContainerId is the id of one
\* of its containers
C36_SelectedIsSelectable ==
    /\ Selectable(runtimeConfig)
    /\ ret.fn = "choice" => Selectable(ret.after.runtimeConfig)

\* the same for the intents a page posts while it is the page displayed, over
\* Spec
C36_SelectableFromCurrentPage == Selectable(runtimeConfig)

C36_StaleChoiceSeen ==
    /\ ret.fn = "choice"
    /\ arg.listing = <<"c2">>
    /\ ret.after.runtimeConfig.selectedContainerId = "c1"
    /\ ret.after.html.selected = "c1"
    /\ ret.after.html.containers = <<"c2">>

=============================================================================
